---- MODULE Spec2Model ----
(***************************************************************************)
(* A model of FindAFactor (src/FindAFactor/_find_a_factor.cpp): the driver *)
(* find_a_factor, the Factorizer batch counter and its workers, and the    *)
(* pure wheel-indexing functions they are built from.                      *)
(*                                                                         *)
(* BigInteger is boost::multiprecision::cpp_int: a signed integer of       *)
(* unbounded width whose / and % truncate toward zero, whose >> floors and *)
(* whose bitwise operators act on the two's-complement reading.            *)
(***************************************************************************)
EXTENDS Integers, Sequences, FiniteSets, TLC

----------------------------------------------------------------------------
(* Arithmetic of BigInteger and size_t                                     *)

Abs(x) == IF x < 0 THEN -x ELSE x

Min(a, b) == IF a < b THEN a ELSE b

Max(a, b) == IF a < b THEN b ELSE a

(* operator/ of cpp_int: the quotient truncated toward zero (b # 0) *)
TDiv(a, b) ==
  IF (a >= 0) = (b > 0) THEN Abs(a) \div Abs(b) ELSE -(Abs(a) \div Abs(b))

(* operator% of cpp_int: the remainder takes the sign of the dividend *)
TMod(a, b) == a - b * TDiv(a, b)

(* x >> 1 of cpp_int and of size_t: the floor of x / 2 *)
Shr1(x) == IF x >= 0 THEN x \div 2 ELSE -((1 - x) \div 2)

(* ~(~x | 1U): x with its lowest bit cleared *)
ClearBit0(x) == x - (x % 2)

(* boost::multiprecision::gcd, which the unqualified calls gcd(a, <expr>)  *)
(* select by argument-dependent lookup when the second argument is an      *)
(* expression template (n1 % n2, x + y, x - y): the non-negative gcd.      *)
RECURSIVE mp_gcd(_, _)
mp_gcd(a, b) == IF b = 0 THEN Abs(a) ELSE mp_gcd(b, Abs(a) % Abs(b))

(* Qimcifa::gcd: returns n1 itself when n2 is zero, otherwise the gcd of   *)
(* (n2, n1 % n2), an expression-argument call.                             *)
gcd(n1, n2) == IF n2 = 0 THEN n1 ELSE mp_gcd(n2, TMod(n1, n2))

(* The binary search of sqrt and _sqrt on [1, toTest >> 1]: one do-while   *)
(* iteration per step; start > end after the body ends the loop.           *)
RECURSIVE sqrtLoop(_, _, _, _)
sqrtLoop(toTest, start, end, ans) ==
  LET mid == Shr1(start + end)
      sqr == mid * mid
  IN IF sqr = toTest THEN mid
     ELSE IF sqr < toTest
          THEN IF mid + 1 <= end THEN sqrtLoop(toTest, mid + 1, end, mid)
               ELSE mid
          ELSE IF start <= mid - 1 THEN sqrtLoop(toTest, start, mid - 1, ans)
               ELSE ans

sqrt(toTest) == sqrtLoop(toTest, 1, Shr1(toTest), 0)

_sqrt(toTest) == sqrtLoop(toTest, 1, Shr1(toTest), 0)

RECURSIVE log2(_)
log2(n) == IF Shr1(n) = 0 THEN 0 ELSE 1 + log2(Shr1(n))

----------------------------------------------------------------------------
(* Wheel tables and the index <-> candidate maps                           *)

wheel5 ==
  <<
    1, 7, 11, 13, 17, 19, 23, 29
  >>

wheel7 ==
  <<
    1, 11, 13, 17, 19, 23, 29, 31, 37, 41, 43, 47, 53, 59, 61, 67,
    71, 73, 79, 83, 89, 97, 101, 103, 107, 109, 113, 121, 127, 131, 137, 139,
    143, 149, 151, 157, 163, 167, 169, 173, 179, 181, 187, 191, 193, 197, 199, 209
  >>

wheel11 ==
  <<
    1, 13, 17, 19, 23, 29, 31, 37, 41, 43, 47, 53, 59, 61, 67, 71,
    73, 79, 83, 89, 97, 101, 103, 107, 109, 113, 127, 131, 137, 139, 149, 151,
    157, 163, 167, 169, 173, 179, 181, 191, 193, 197, 199, 211, 221, 223, 227, 229,
    233, 239, 241, 247, 251, 257, 263, 269, 271, 277, 281, 283, 289, 293, 299, 307,
    311, 313, 317, 323, 331, 337, 347, 349, 353, 359, 361, 367, 373, 377, 379, 383,
    389, 391, 397, 401, 403, 409, 419, 421, 431, 433, 437, 439, 443, 449, 457, 461,
    463, 467, 479, 481, 487, 491, 493, 499, 503, 509, 521, 523, 527, 529, 533, 541,
    547, 551, 557, 559, 563, 569, 571, 577, 587, 589, 593, 599, 601, 607, 611, 613,
    617, 619, 629, 631, 641, 643, 647, 653, 659, 661, 667, 673, 677, 683, 689, 691,
    697, 701, 703, 709, 713, 719, 727, 731, 733, 739, 743, 751, 757, 761, 767, 769,
    773, 779, 787, 793, 797, 799, 809, 811, 817, 821, 823, 827, 829, 839, 841, 851,
    853, 857, 859, 863, 871, 877, 881, 883, 887, 893, 899, 901, 907, 911, 919, 923,
    929, 937, 941, 943, 947, 949, 953, 961, 967, 971, 977, 983, 989, 991, 997, 1003,
    1007, 1009, 1013, 1019, 1021, 1027, 1031, 1033, 1037, 1039, 1049, 1051, 1061, 1063, 1069, 1073,
    1079, 1081, 1087, 1091, 1093, 1097, 1103, 1109, 1117, 1121, 1123, 1129, 1139, 1147, 1151, 1153,
    1157, 1159, 1163, 1171, 1181, 1187, 1189, 1193, 1201, 1207, 1213, 1217, 1219, 1223, 1229, 1231,
    1237, 1241, 1247, 1249, 1259, 1261, 1271, 1273, 1277, 1279, 1283, 1289, 1291, 1297, 1301, 1303,
    1307, 1313, 1319, 1321, 1327, 1333, 1339, 1343, 1349, 1357, 1361, 1363, 1367, 1369, 1373, 1381,
    1387, 1391, 1399, 1403, 1409, 1411, 1417, 1423, 1427, 1429, 1433, 1439, 1447, 1451, 1453, 1457,
    1459, 1469, 1471, 1481, 1483, 1487, 1489, 1493, 1499, 1501, 1511, 1513, 1517, 1523, 1531, 1537,
    1541, 1543, 1549, 1553, 1559, 1567, 1571, 1577, 1579, 1583, 1591, 1597, 1601, 1607, 1609, 1613,
    1619, 1621, 1627, 1633, 1637, 1643, 1649, 1651, 1657, 1663, 1667, 1669, 1679, 1681, 1691, 1693,
    1697, 1699, 1703, 1709, 1711, 1717, 1721, 1723, 1733, 1739, 1741, 1747, 1751, 1753, 1759, 1763,
    1769, 1777, 1781, 1783, 1787, 1789, 1801, 1807, 1811, 1817, 1819, 1823, 1829, 1831, 1843, 1847,
    1849, 1853, 1861, 1867, 1871, 1873, 1877, 1879, 1889, 1891, 1901, 1907, 1909, 1913, 1919, 1921,
    1927, 1931, 1933, 1937, 1943, 1949, 1951, 1957, 1961, 1963, 1973, 1979, 1987, 1993, 1997, 1999,
    2003, 2011, 2017, 2021, 2027, 2029, 2033, 2039, 2041, 2047, 2053, 2059, 2063, 2069, 2071, 2077,
    2081, 2083, 2087, 2089, 2099, 2111, 2113, 2117, 2119, 2129, 2131, 2137, 2141, 2143, 2147, 2153,
    2159, 2161, 2171, 2173, 2179, 2183, 2197, 2201, 2203, 2207, 2209, 2213, 2221, 2227, 2231, 2237,
    2239, 2243, 2249, 2251, 2257, 2263, 2267, 2269, 2273, 2279, 2281, 2287, 2291, 2293, 2297, 2309
  >>

(* enum Wheel: the value of each enumerator is the wheel's radius *)
ERROR == 0
WHEEL1 == 1
WHEEL2 == 2
WHEEL3 == 6
WHEEL5 == 30
WHEEL7 == 210
WHEEL11 == 2310

wheelByPrimeCardinal(i) ==
  CASE i = 0 -> WHEEL1
    [] i = 1 -> WHEEL2
    [] i = 2 -> WHEEL3
    [] i = 3 -> WHEEL5
    [] i = 4 -> WHEEL7
    [] i = 5 -> WHEEL11
    [] OTHER -> ERROR

(* std::distance(table, std::lower_bound(table, table + size, v)): the     *)
(* number of entries smaller than v, which is the 0-based position of the  *)
(* first entry not smaller than v.                                         *)
lower_bound(table, v) == Cardinality({i \in 1..Len(table) : table[i] < v})

(* table[i] of a C array: the index is 0-based *)
At(table, i) == table[i + 1]

(* size_t variants (p, n >= 0; forward3(0) wraps to 2^64 - 1 and is not    *)
(* called by the sieve, whose index starts above 1)                        *)
forward2(p) == 2 * p + 1

backward2(p) == Shr1(p)

forward3(p) == 2 * p + ClearBit0(p) - 1

backward3(n) == (ClearBit0(n) \div 3) + 1

forward5(p) == At(wheel5, p % 8) + (p \div 8) * 30

backward5(n) == lower_bound(wheel5, n % 30) + 8 * (n \div 30) + 1

forward7(p) == At(wheel7, p % 48) + (p \div 48) * 210

backward7(n) == lower_bound(wheel7, n % 210) + 48 * (n \div 210) + 1

forward11(p) == At(wheel11, p % 480) + (p \div 480) * 2310

backward11(n) == lower_bound(wheel11, n % 2310) + 480 * (n \div 2310) + 1

(* BigInteger variants: signed arguments.  p & 7U and p >> 3U read the     *)
(* two's complement of p (floor), p % 48U and p / 48U truncate.            *)
_forward2(p) == 2 * p + 1

_backward2(n) == Shr1(n)

_forward3(p) == 2 * p + ClearBit0(p) - 1

_backward3(n) == TDiv(ClearBit0(n), 3) + 1

_forward5(p) == At(wheel5, p % 8) + ((p - (p % 8)) \div 8) * 30

_backward5(n) == lower_bound(wheel5, TMod(n, 30)) + 8 * TDiv(n, 30) + 1

_forward7(p) == At(wheel7, TMod(p, 48)) + TDiv(p, 48) * 210

_backward7(n) == lower_bound(wheel7, TMod(n, 210)) + 48 * TDiv(n, 210) + 1

_forward11(p) == At(wheel11, TMod(p, 480)) + TDiv(p, 480) * 2310

_backward11(n) == lower_bound(wheel11, TMod(n, 2310)) + 480 * TDiv(n, 2310) + 1

(* forward(w) and backward(w): the function selected for a wheel, applied *)
forward(w, p) ==
  CASE w = WHEEL2 -> _forward2(p)
    [] w = WHEEL3 -> _forward3(p)
    [] w = WHEEL5 -> _forward5(p)
    [] w = WHEEL7 -> _forward7(p)
    [] w = WHEEL11 -> _forward11(p)
    [] OTHER -> p

backward(w, n) ==
  CASE w = WHEEL2 -> _backward2(n)
    [] w = WHEEL3 -> _backward3(n)
    [] w = WHEEL5 -> _backward5(n)
    [] w = WHEEL7 -> _backward7(n)
    [] w = WHEEL11 -> _backward11(n)
    [] OTHER -> n

(* The arguments on which forward(w) reads inside its table.  A negative   *)
(* p makes (size_t)(p % 48U) or (size_t)(p % 480U) an index far outside    *)
(* the array.                                                              *)
forwardDefined(w, p) == (w \in {WHEEL7, WHEEL11}) => (p >= 0)

----------------------------------------------------------------------------
(* The sieve and the gears                                                 *)

(* A bit register shifted right by one: bit b moves to b - 1 *)
ShiftSet(reg) == {b - 1 : b \in reg \ {0}}

(* One do-while iteration of GetWheel5and7Increment per step.  wheel5 is   *)
(* a 10-bit and wheel7 a 56-bit rotating register, kept as the set of      *)
(* positions of their 1 bits; the result carries both registers back.      *)
RECURSIVE GetWheel5and7IncrementLoop(_, _, _)
GetWheel5and7IncrementLoop(w5, w7, wheelIncrement) ==
  IF 0 \in w5
  THEN GetWheel5and7IncrementLoop(ShiftSet(w5) \cup {9}, w7, wheelIncrement + 1)
  ELSE IF 0 \in w7
       THEN GetWheel5and7IncrementLoop(ShiftSet(w5), ShiftSet(w7) \cup {55},
                                       wheelIncrement + 1)
       ELSE [inc |-> wheelIncrement + 1, w5 |-> ShiftSet(w5), w7 |-> ShiftSet(w7)]

GetWheel5and7Increment(w5, w7) == GetWheel5and7IncrementLoop(w5, w7, 0)

(* The inner for(;;) of the sieve: mark the multiples i of p, stepping by  *)
(* 4p and 2p in turn; notPrime is the set of marked positions.             *)
RECURSIVE SieveMark(_, _, _, _, _)
SieveMark(i, p, n, notPrime, byFour) ==
  LET marked == IF i % 5 # 0 THEN notPrime \cup {backward5(i)} ELSE notPrime
      next == i + (IF byFour THEN 4 * p ELSE 2 * p)
  IN IF next > n THEN marked ELSE SieveMark(next, p, n, marked, ~byFour)

(* The marking of one new prime p without the half iteration for p % 3 = 2 *)
SieveMarkPrimeWhole(p, n, notPrime) == SieveMark(p * p, p, n, notPrime, TRUE)

(* The marking done for one new prime p, half iteration included *)
SieveMarkPrime(p, n, notPrime) ==
  IF p % 3 = 2
  THEN LET marked == notPrime \cup {backward5(p * p)}
       IN IF p * p + 2 * p > n THEN marked
          ELSE SieveMark(p * p + 2 * p, p, n, marked, TRUE)
  ELSE SieveMark(p * p, p, n, notPrime, TRUE)

(* The second for(;;), at most turns turns of it from the given registers:  *)
(* the unmarked candidates up to n are appended; done tells that p > n      *)
(* ended the loop                                                           *)
RECURSIVE SieveCollectTurns(_, _, _, _, _, _, _)
SieveCollectTurns(turns, o, w5, w7, n, notPrime, knownPrimes) ==
  LET p == forward3(o)
      g == GetWheel5and7Increment(w5, w7)
  IN IF p > n \/ turns = 0
     THEN [done |-> p > n, o |-> o, w5 |-> w5, w7 |-> w7,
           knownPrimes |-> knownPrimes]
     ELSE SieveCollectTurns(turns - 1, o + g.inc, g.w5, g.w7, n, notPrime,
                            IF backward5(p) \in notPrime THEN knownPrimes
                            ELSE Append(knownPrimes, p))

(* The second for(;;) to its break, evaluated eight turns at a time *)
RECURSIVE SieveCollect(_, _, _, _, _, _)
SieveCollect(o, w5, w7, n, notPrime, knownPrimes) ==
  LET s == SieveCollectTurns(8, o, w5, w7, n, notPrime, knownPrimes)
  IN IF s.done THEN s.knownPrimes
     ELSE SieveCollect(s.o, s.w5, s.w7, n, notPrime, s.knownPrimes)

(* The first for(;;): primes p with p * p <= n, each marking its multiples; *)
(* the state of the function when the loop breaks                           *)
RECURSIVE SieveLoop(_, _, _, _, _, _)
SieveLoop(o, w5, w7, n, notPrime, knownPrimes) ==
  LET g == GetWheel5and7Increment(w5, w7)
      o2 == o + g.inc
      p == forward3(o2)
  IN IF p * p > n
     THEN [o |-> o2, w5 |-> g.w5, w7 |-> g.w7, notPrime |-> notPrime,
           knownPrimes |-> knownPrimes]
     ELSE IF backward5(p) \in notPrime
          THEN SieveLoop(o2, g.w5, g.w7, n, notPrime, knownPrimes)
          ELSE SieveLoop(o2, g.w5, g.w7, n, SieveMarkPrime(p, n, notPrime),
                         Append(knownPrimes, p))

(* std::upper_bound on a sorted vector: the number of entries <= v *)
upper_bound(vec, v) == Cardinality({i \in 1..Len(vec) : vec[i] <= v})

(* The sieve from its registers' initial values (129 and                    *)
(* 9009416540524545) up to the break of the first loop                     *)
SieveMarked(n) ==
  SieveLoop(1, {0, 7}, {0, 12, 19, 23, 30, 34, 41, 53}, n, {}, <<2, 3, 5, 7>>)

SieveOfEratosthenes(n) ==
  IF n < 2 THEN << >>
  ELSE IF n < 9 THEN SubSeq(<<2, 3, 5, 7>>, 1, upper_bound(<<2, 3, 5, 7>>, n))
  ELSE LET s == SieveMarked(n)
       IN SieveCollect(s.o, s.w5, s.w7, n, s.notPrime, s.knownPrimes)

(* The indices of notPrime that SieveOfEratosthenes(n) writes *)
SieveWrites(n) == IF n < 9 THEN {} ELSE SieveMarked(n).notPrime

isMultiple(p, knownPrimes) ==
  \E k \in 1..Len(knownPrimes) : TMod(p, knownPrimes[k]) = 0

RECURSIVE SeqProduct(_)
SeqProduct(s) == IF s = << >> THEN 1 ELSE Head(s) * SeqProduct(Tail(s))

(* The loop of wheel_inc (lines 426-430) over i in lo..hi: for every i     *)
(* that no prime of rest divides, the bit pushed, in the order of i        *)
RECURSIVE WheelBits(_, _, _, _)
WheelBits(lo, hi, rest, prime) ==
  IF lo > hi THEN << >>
  ELSE IF lo = hi
       THEN IF isMultiple(lo, rest) THEN << >> ELSE <<(lo % prime) = 0>>
  ELSE WheelBits(lo, (lo + hi) \div 2, rest, prime)
         \o WheelBits(((lo + hi) \div 2) + 1, hi, rest, prime)

(* wheel_inc: one gear, as the sequence of its bits from bit 0 upward: bit *)
(* k tells whether the (k+1)-th survivor is a multiple of the last prime;  *)
(* the bitset is shifted right by one at the end (the top bit becomes 0)   *)
wheel_inc(ps) ==
  LET o == WheelBits(1, SeqProduct(ps), SubSeq(ps, 1, Len(ps) - 1), ps[Len(ps)])
  IN Tail(o) \o <<FALSE>>

wheel_gen(ps) == [k \in 1..Len(ps) |-> wheel_inc(SubSeq(ps, 1, k))]

(* A gear shifted without re-inserting the consumed bit at the high end *)
RECURSIVE GearPassShift(_, _)
GearPassShift(seqs, i) ==
  IF i > Len(seqs) THEN [seqs |-> seqs, hit |-> FALSE]
  ELSE IF seqs[i][1]
       THEN [seqs |-> [seqs EXCEPT ![i] = Tail(seqs[i]) \o <<FALSE>>], hit |-> TRUE]
       ELSE GearPassShift([seqs EXCEPT ![i] = Tail(seqs[i]) \o <<FALSE>>], i + 1)

(* One pass of the for loop of GetWheelIncrement over gears i..: each gear *)
(* is shifted; the first one whose bit 0 was set gets its top bit set and  *)
(* ends the pass.  hit is is_wheel_multiple after the pass.                *)
RECURSIVE GearPass(_, _)
GearPass(seqs, i) ==
  IF i > Len(seqs) THEN [seqs |-> seqs, hit |-> FALSE]
  ELSE LET wheel == seqs[i]
           shifted == Tail(wheel) \o <<FALSE>>
       IN IF wheel[1]
          THEN [seqs |-> [seqs EXCEPT ![i] = Tail(wheel) \o <<TRUE>>], hit |-> TRUE]
          ELSE GearPass([seqs EXCEPT ![i] = shifted], i + 1)

RECURSIVE GetWheelIncrementLoop(_, _)
GetWheelIncrementLoop(seqs, wheelIncrement) ==
  LET pass == GearPass(seqs, 1)
  IN IF pass.hit THEN GetWheelIncrementLoop(pass.seqs, wheelIncrement + 1)
     ELSE [inc |-> wheelIncrement + 1, seqs |-> pass.seqs]

GetWheelIncrement(inc_seqs) == GetWheelIncrementLoop(inc_seqs, 0)

----------------------------------------------------------------------------
(* Decimal strings: the argument toFactorStr and the returned string       *)

DigitChars == <<"0", "1", "2", "3", "4", "5", "6", "7", "8", "9">>

DigitValue(c) == (CHOOSE i \in 1..10 : DigitChars[i] = c) - 1

RECURSIVE Digits(_)
Digits(n) ==
  IF n < 10 THEN <<DigitChars[n + 1]>>
  ELSE Digits(n \div 10) \o <<DigitChars[(n % 10) + 1]>>

(* boost::lexical_cast<std::string>(BigInteger) *)
lexical_cast(x) == IF x < 0 THEN <<"-">> \o Digits(-x) ELSE Digits(x)

RECURSIVE DigitsValue(_, _)
DigitsValue(str, acc) ==
  IF str = << >> THEN acc
  ELSE DigitsValue(Tail(str), 10 * acc + DigitValue(Head(str)))

(* BigInteger(const std::string&) on a decimal string *)
BigInteger(str) ==
  IF str # << >> /\ Head(str) = "-" THEN -DigitsValue(Tail(str), 0)
  ELSE DigitsValue(str, 0)

----------------------------------------------------------------------------
(* Bounds of the checked instance                                          *)

(* numbers to factor: 1..MaxN and a few larger ones that reach the bigger  *)
(* wheels                                                                  *)
MaxN == 26

(* the number of threads the driver starts (std::thread::hardware_concurrency) *)
CpuCount == 2

(* passes of the congruence-of-squares do-while that are followed *)
MaxRounds == 2

(* nodes of the stand-alone batch-counter specification *)
MaxNodes == 3

(* largest batchRange of the stand-alone batch-counter specification *)
MaxRange == 4

(* largest index or candidate of the wheel round-trip specification *)
MaxIndex == 40

(* largest bound n given to the stand-alone sieve *)
MaxSieve == 300

(* most rows appended to the seed rows in the stand-alone elimination *)
MaxAppended == 2

(* most hardware threads (row-update tasks) in the stand-alone elimination *)
MaxTasks == 3

(* largest batch number swept in the stand-alone gear walk *)
MaxBatch == 1

(* largest number to factor in the stand-alone congruence check *)
MaxSquareN == 40

(* largest argument of the stand-alone congruence check *)
MaxSquare == 60

(* largest argument of the stand-alone factorizationVector *)
MaxVectorN == 400

(* largest argument of the stand-alone square roots *)
MaxRoot == 300

LargeN == {35, 77, 143}

ToFactorSet == (1..MaxN) \cup LargeN

TrialDivisionLevels == {0, 2, 5, 7}

WheelLevels == {0, 1, 2, 3, 5, 7, 12}

GearLevels == {0, 1, 2, 3, 5, 7}

(* (nodeCount, nodeId) pairs, valid and invalid *)
NodePairs == {<<1, 0>>, <<2, 0>>, <<2, 1>>, <<1, 1>>, <<0, 0>>}

(* batchSizeMultiplier, a double, in halves: 0, 0.5 and 1 *)
BatchSizeHalves == {0, 1, 2}

(* largest range handed to the stand-alone variant's Factorizer *)
MaxBatchBound == 3

(* most worker threads of the stand-alone variant *)
MaxWorkers == 3

(* width of one batch in the stand-alone variant's sweep (for BIGGEST_WHEEL) *)
BatchWidth == 2
----------------------------------------------------------------------------
(* The state of one call of find_a_factor                                  *)

VARIABLES
  toFactorStr,               \* argument: the number to factor, in decimal
  isConOfSqr,                \* argument
  isGaussElim,               \* argument
  nodeCount,                 \* argument
  nodeId,                    \* argument
  trialDivisionLevel,        \* argument
  gearFactorizationLevel,    \* argument, clamped in place
  wheelFactorizationLevel,   \* argument, clamped in place
  smoothnessBoundMultiplier, \* argument
  batchSizeMultiplier,       \* argument, counted in halves
  pc,                        \* where the driver stands
  outcome,                   \* "running", "returned", "exception", "undefined"
  returned,                  \* the string the call returned
  toFactor,                  \* locals of find_a_factor
  fullMaxBase,
  result,
  primes,
  itw,
  itg,
  wgDiff,
  inc_seqs,
  worker,                    \* the Factorizer
  futures,                   \* the threads started with std::async
  rounds,                    \* passes of the do-while begun so far
  nodes,                     \* batch counters of the stand-alone counter specification
  handed,                    \* batch indices handed out to each node there
  trip,                      \* the round-trip specification's argument and results
  sieve,                     \* one call of SieveOfEratosthenes on its own
  elim,                      \* one call of gaussianElimination, task by task
  gear,                      \* one batch sweep of the gears on its own
  square,                    \* one call of checkPerfectSquare on its own
  vector,                    \* one call of factorizationVector on its own
  root,                      \* one call of sqrt and of _sqrt on their own
  batches                    \* the batch counter of the stand-alone variant

args == <<toFactorStr, isConOfSqr, isGaussElim, nodeCount, nodeId,
          trialDivisionLevel, smoothnessBoundMultiplier, batchSizeMultiplier>>

levels == <<gearFactorizationLevel, wheelFactorizationLevel>>

locals == <<toFactor, fullMaxBase, primes, itw, itg, wgDiff, inc_seqs>>

(* the stand-alone function specifications *)
alone == <<sieve, elim, gear, square, vector, root, batches>>

others == <<nodes, handed, trip, alone>>

vars == <<args, levels, pc, outcome, returned, result, locals, worker, futures,
          rounds, others>>

(* The Factorizer before it is constructed *)
NoFactorizer == [constructed |-> FALSE]

(* The calls enumerated: every number with every trial-division level and  *)
(* wheel/gear pair on one node in brute-force mode; the node pairs with    *)
(* the smallest wheel; congruence-of-squares mode on one node.             *)
GridCalls ==
  {c \in [toFactorStr : {lexical_cast(n) : n \in ToFactorSet},
          isConOfSqr : BOOLEAN, isGaussElim : BOOLEAN,
          nodes : NodePairs,
          trialDivisionLevel : TrialDivisionLevels,
          gearFactorizationLevel : GearLevels,
          wheelFactorizationLevel : WheelLevels,
          batchSizeMultiplier : BatchSizeHalves] :
     /\ (c.nodes # <<1, 0>>) =>
          (c.wheelFactorizationLevel = 1 /\ c.gearFactorizationLevel = 1
           /\ ~c.isConOfSqr)
     /\ c.isConOfSqr =>
          (c.wheelFactorizationLevel \in {1, 2}
           /\ c.gearFactorizationLevel = c.wheelFactorizationLevel
           /\ c.trialDivisionLevel \in {0, 2})
     /\ ~c.isConOfSqr => (~c.isGaussElim /\ c.batchSizeMultiplier = 2)}

(* Three calls whose factor base is not empty and whose threads append     *)
(* rows: 1243 = 11 * 113 with Gaussian elimination, and the prime 251 with *)
(* the duplicate-row search and with Gaussian elimination                  *)
EliminationCalls ==
  {[toFactorStr |-> lexical_cast(1243), isConOfSqr |-> TRUE, isGaussElim |-> TRUE,
    nodes |-> <<1, 0>>, trialDivisionLevel |-> 7, gearFactorizationLevel |-> 5,
    wheelFactorizationLevel |-> 5, batchSizeMultiplier |-> 2],
   [toFactorStr |-> lexical_cast(251), isConOfSqr |-> TRUE, isGaussElim |-> FALSE,
    nodes |-> <<1, 0>>, trialDivisionLevel |-> 15, gearFactorizationLevel |-> 7,
    wheelFactorizationLevel |-> 7, batchSizeMultiplier |-> 0],
   [toFactorStr |-> lexical_cast(251), isConOfSqr |-> TRUE, isGaussElim |-> TRUE,
    nodes |-> <<1, 0>>, trialDivisionLevel |-> 15, gearFactorizationLevel |-> 7,
    wheelFactorizationLevel |-> 7, batchSizeMultiplier |-> 0]}

Calls == GridCalls \cup EliminationCalls

(* None of the stand-alone function specifications is running *)
AloneIdle ==
  /\ sieve = [on |-> FALSE]
  /\ elim = [on |-> FALSE]
  /\ gear = [on |-> FALSE]
  /\ square = [on |-> FALSE]
  /\ vector = [on |-> FALSE]
  /\ root = [on |-> FALSE]
  /\ batches = [on |-> FALSE]

InitOthers ==
  /\ nodes = << >>
  /\ handed = << >>
  /\ trip = [on |-> FALSE]
  /\ AloneIdle

Init ==
  /\ \E c \in Calls :
       /\ toFactorStr = c.toFactorStr
       /\ isConOfSqr = c.isConOfSqr
       /\ isGaussElim = c.isGaussElim
       /\ nodeCount = c.nodes[1]
       /\ nodeId = c.nodes[2]
       /\ trialDivisionLevel = c.trialDivisionLevel
       /\ gearFactorizationLevel = c.gearFactorizationLevel
       /\ wheelFactorizationLevel = c.wheelFactorizationLevel
       /\ batchSizeMultiplier = c.batchSizeMultiplier
  /\ smoothnessBoundMultiplier = 1
  /\ pc = "start"
  /\ outcome = "running"
  /\ returned = << >>
  /\ toFactor = 0
  /\ fullMaxBase = 0
  /\ result = 1
  /\ primes = << >>
  /\ itw = 0
  /\ itg = 0
  /\ wgDiff = 0
  /\ inc_seqs = << >>
  /\ worker = NoFactorizer
  /\ futures = << >>
  /\ rounds = 0
  /\ InitOthers

(* return boost::lexical_cast<std::string>(x) *)
Return(x) ==
  /\ pc' = "done"
  /\ outcome' = "returned"
  /\ returned' = lexical_cast(x)

(* an exception leaves find_a_factor, or the call runs into undefined      *)
(* behaviour: no string is returned                                        *)
Fail(how) ==
  /\ pc' = "done"
  /\ outcome' = how
  /\ returned' = << >>

(* The clamp of the two levels (lines 863-874) *)
ClampWheel(w) == IF w = 0 THEN 1 ELSE IF w > 11 THEN 11 ELSE w

ClampGear(g, w) == IF g = 0 THEN 1 ELSE IF g < w THEN w ELSE g

(* find_a_factor up to the perfect-square exit *)
Start ==
  /\ pc = "start"
  /\ wheelFactorizationLevel' = ClampWheel(wheelFactorizationLevel)
  /\ gearFactorizationLevel' =
       ClampGear(gearFactorizationLevel, ClampWheel(wheelFactorizationLevel))
  /\ toFactor' = BigInteger(toFactorStr)
  /\ fullMaxBase' = sqrt(toFactor')
  /\ IF fullMaxBase' * fullMaxBase' = toFactor'
     THEN Return(fullMaxBase')
     ELSE pc' = "trial" /\ UNCHANGED <<outcome, returned>>
  /\ UNCHANGED <<args, result, primes, itw, itg, wgDiff, inc_seqs, worker,
                 futures, rounds, others>>

(* The trial division tasks: each takes 64 primes and stores the first of  *)
(* its primes that divides toFactor.  The sieve holds fewer than 64 primes *)
(* here, so there is one task.                                             *)
RECURSIVE TrialDivision(_, _, _)
TrialDivision(n, ps, pi) ==
  IF pi > Len(ps) THEN 1
  ELSE IF TMod(n, ps[pi]) = 0 THEN ps[pi]
  ELSE TrialDivision(n, ps, pi + 1)

(* find_a_factor from the sieve to the return after trial division *)
Trial ==
  /\ pc = "trial"
  /\ LET primeCeiling == IF trialDivisionLevel < fullMaxBase
                         THEN trialDivisionLevel ELSE fullMaxBase
     IN /\ primes' = SieveOfEratosthenes(primeCeiling)
        /\ itw' = upper_bound(primes', wheelFactorizationLevel)
        /\ itg' = upper_bound(primes', gearFactorizationLevel)
        /\ wgDiff' = itg' - itw'
        /\ result' = TrialDivision(toFactor, primes', 1)
        /\ IF result' # 1 \/ toFactor <= primeCeiling * primeCeiling
           THEN Return(result')
           ELSE pc' = "setup" /\ UNCHANGED <<outcome, returned>>
  /\ UNCHANGED <<args, levels, toFactor, fullMaxBase, inc_seqs, worker, futures,
                 rounds, others>>

(* The factor base loop (lines 931-938): the primes whose residue of       *)
(* toFactor passes the _sqrt test, at most maxPrimeCount of them           *)
RECURSIVE SmoothPrimes(_, _, _, _, _)
SmoothPrimes(n, ps, primeId, maxPrimeCount, smoothPrimes) ==
  IF primeId > Len(ps) \/ Len(smoothPrimes) >= maxPrimeCount THEN smoothPrimes
  ELSE LET p == ps[primeId]
           residue == TMod(n, p)
           sr == _sqrt(residue)
       IN SmoothPrimes(n, ps, primeId + 1, maxPrimeCount,
                       IF sr * sr = residue THEN Append(smoothPrimes, p)
                       ELSE smoothPrimes)

(* Lines 948-953: the entries of [0, biggestWheel) the wheel primes leave *)
WheelEntryCount(biggestWheel, wheelFactorizationPrimes) ==
  Cardinality({i \in 0..(biggestWheel - 1) :
                 ~isMultiple(i, wheelFactorizationPrimes)})

(* Line 965 *)
NodeRange(smallestWheel, maxBase, nCount, wheelEntryCount) ==
  TDiv(TDiv(backward(smallestWheel, maxBase) + nCount - 1, nCount)
       + wheelEntryCount - 1, wheelEntryCount)

(* Row i of the identity matrix the constructor starts from *)
UnitRow(i, size) == [k \in 1..size |-> k = i]

(* The constructor of Factorizer (lines 511-523) *)
Factorizer(tf, tfsqrt, range, nCount, nId, w, spl, p, fn) ==
  [constructed |-> TRUE,
   toFactor |-> tf,
   toFactorSqrt |-> tfsqrt,
   batchRange |-> range,
   batchNumber |-> 0,
   batchOffset |-> nId * range,
   batchTotal |-> nCount * range,
   wheelRadius |-> SeqProduct(p),
   wheelEntryCount |-> w,
   smoothPartsLimit |-> spl,
   rowOffset |-> Len(p),
   isIncomplete |-> TRUE,
   primes |-> p,
   forwardFn |-> fn,
   smoothNumberKeys |-> p,
   smoothNumberValues |-> [i \in 1..Len(p) |-> UnitRow(i, Len(p))]]

(* find_a_factor from the wheel set-up to the constructed Factorizer.      *)
(* wgDiff < 0 is the size_t distance of itg before itw: the range          *)
(* [begin, end - wgDiff) given to erase then ends past the end of          *)
(* inc_seqs.  nodeCount = 0 divides a BigInteger by zero, which throws.    *)
Setup ==
  /\ pc = "setup"
  /\ LET gearFactorizationPrimes == SubSeq(primes, 1, itg)
         wheelFactorizationPrimes == SubSeq(primes, 1, itw)
         toFactorBits == log2(toFactor)
         product == smoothnessBoundMultiplier * toFactorBits
         smoothPrimeCount == IF product = 0 THEN 1 ELSE product
         erased == SubSeq(primes, itg + 1, Len(primes))
         maxPrimeCount == Min(Len(erased), smoothPrimeCount)
         smoothPrimes == SmoothPrimes(toFactor, erased, 1, maxPrimeCount, << >>)
         biggestWheel == SeqProduct(gearFactorizationPrimes)
         wheelEntryCount == WheelEntryCount(biggestWheel, wheelFactorizationPrimes)
         gears == wheel_gen(gearFactorizationPrimes)
         MIN_RTD_LEVEL == Len(gearFactorizationPrimes) - wgDiff
         SMALLEST_WHEEL == wheelByPrimeCardinal(MIN_RTD_LEVEL)
     IN IF wgDiff < 0
        THEN Fail("undefined") /\ UNCHANGED <<primes, inc_seqs, worker>>
        ELSE IF nodeCount = 0
        THEN Fail("exception") /\ UNCHANGED <<primes, inc_seqs, worker>>
        ELSE /\ primes' = erased
             /\ inc_seqs' = SubSeq(gears, Len(gears) - wgDiff + 1, Len(gears))
             /\ worker' = Factorizer(toFactor, fullMaxBase,
                            NodeRange(SMALLEST_WHEEL, fullMaxBase, nodeCount,
                                      wheelEntryCount),
                            nodeCount, nodeId, wheelEntryCount,
                            wheelEntryCount * batchSizeMultiplier,
                            smoothPrimes, SMALLEST_WHEEL)
             /\ pc' = "spawn"
             /\ UNCHANGED <<outcome, returned>>
  /\ UNCHANGED <<args, levels, toFactor, fullMaxBase, result, itw, itg, wgDiff,
                 futures, rounds, others>>

(* A thread just started: workerFn or smoothNumberFn has cloned inc_seqs   *)
(* and stands before its first getNextAltBatch                             *)
NewThread ==
  [at |-> "acquire", batchNum |-> 0, inc_seqs_clone |-> inc_seqs,
   semiSmoothParts |-> << >>, pending |-> << >>, r |-> 0]

(* The loop of std::async calls (lines 988-990, 1022-1024).  Of the passes *)
(* of the do-while, only the first MaxRounds are followed.                 *)
Spawn ==
  /\ pc = "spawn"
  /\ rounds < MaxRounds
  /\ futures' = [cpu \in 1..CpuCount |-> NewThread]
  /\ rounds' = rounds + 1
  /\ pc' = "join"
  /\ UNCHANGED <<args, levels, outcome, returned, result, locals, worker, others>>

(* The value getNextAltBatch returns when batchNumber is k, given the      *)
(* node's offset and the total (lines 532-534)                             *)
AltBatch(batchOffset, batchTotal, k) ==
  LET halfIndex == batchOffset + Shr1(k) + 1
  IN IF (k + 1) % 2 = 1 THEN batchTotal - halfIndex ELSE halfIndex

(* getNextAltBatch, under batchMutex, applied to a Factorizer: the         *)
(* Factorizer afterwards and the value returned                            *)
getNextAltBatch(f) ==
  [f |-> [f EXCEPT !.isIncomplete = IF f.batchNumber >= f.batchRange THEN FALSE
                                    ELSE f.isIncomplete,
                   !.batchNumber = f.batchNumber + 1],
   value |-> AltBatch(f.batchOffset, f.batchTotal, f.batchNumber)]

(* A thread calls getNextAltBatch (the init and the step of the for loop   *)
(* of bruteForce and smoothCongruences)                                    *)
Acquire(cpu) ==
  /\ pc = "join"
  /\ futures[cpu].at = "acquire"
  /\ LET got == getNextAltBatch(worker)
     IN /\ worker' = got.f
        /\ futures' = [futures EXCEPT ![cpu].batchNum = got.value,
                                      ![cpu].at = "check"]
  /\ UNCHANGED <<args, levels, pc, outcome, returned, result, locals, rounds,
                 others>>

(* The loop condition: isIncomplete is read after batchMutex is released.  *)
(* When it is false the thread returns 1.                                  *)
Check(cpu) ==
  /\ pc = "join"
  /\ futures[cpu].at = "check"
  /\ futures' = IF worker.isIncomplete
                THEN [futures EXCEPT ![cpu].at = "sweep"]
                ELSE [futures EXCEPT ![cpu].at = "done", ![cpu].r = 1]
  /\ UNCHANGED <<args, levels, pc, outcome, returned, result, locals, worker,
                 rounds, others>>

(* One turn of the inner for loop of bruteForce and smoothCongruences     *)
(* (lines 542-549, 562-574) on the loop state st: kind is "run" while the  *)
(* loop goes on.  A candidate that divides toFactor ends it with "factor", *)
(* the candidate 0 with "throw" (toFactor % 0 throws std::overflow_error), *)
(* a table read outside wheel7 or wheel11 with "undefined", p >= batchEnd  *)
(* with "end".  keep says whether the candidates are pushed to             *)
(* semiSmoothParts.                                                        *)
SweepStep(f, batchEnd, keep, st) ==
  IF st.kind # "run" THEN st
  ELSE IF st.p >= batchEnd THEN [st EXCEPT !.kind = "end"]
  ELSE IF ~forwardDefined(f.forwardFn, st.p) THEN [st EXCEPT !.kind = "undefined"]
  ELSE LET n == forward(f.forwardFn, st.p)
           g == GetWheelIncrement(st.seqs)
       IN IF n = 0 THEN [st EXCEPT !.kind = "throw"]
          ELSE IF TMod(f.toFactor, n) = 0 /\ n # 1 /\ n # f.toFactor
          THEN [st EXCEPT !.kind = "factor", !.n = n]
          ELSE [kind |-> "run", n |-> 1, p |-> st.p + g.inc, seqs |-> g.seqs,
                parts |-> IF keep THEN Append(st.parts, n) ELSE st.parts]

(* count turns of the loop, taken half by half *)
RECURSIVE SweepSteps(_, _, _, _, _)
SweepSteps(f, batchEnd, keep, st, count) ==
  IF st.kind # "run" \/ count = 0 THEN st
  ELSE IF count = 1 THEN SweepStep(f, batchEnd, keep, st)
  ELSE SweepSteps(f, batchEnd, keep,
                  SweepSteps(f, batchEnd, keep, st, count \div 2),
                  count - (count \div 2))

(* The whole inner loop over the batch [batchStart, batchEnd): every turn  *)
(* moves p forward, so it ends within batchEnd - batchStart + 1 turns      *)
SweepBatch(f, batchStart, batchEnd, seqs, parts, keep) ==
  SweepSteps(f, batchEnd, keep,
             [kind |-> "run", n |-> 1, p |-> batchStart, seqs |-> seqs,
              parts |-> parts],
             Max(batchEnd - batchStart, 0) + 1)

(* A thread sweeps the batch it holds.  In congruence-of-squares mode a    *)
(* full buffer sends it to makeSmoothNumbers.                              *)
Sweep(cpu) ==
  /\ pc = "join"
  /\ futures[cpu].at = "sweep"
  /\ LET me == futures[cpu]
         batchStart == me.batchNum * worker.wheelEntryCount
         batchEnd == batchStart + worker.wheelEntryCount
         s == SweepBatch(worker, batchStart, batchEnd, me.inc_seqs_clone,
                         me.semiSmoothParts, isConOfSqr)
     IN CASE s.kind = "factor" ->
               /\ worker' = [worker EXCEPT !.isIncomplete = FALSE]
               /\ futures' = [futures EXCEPT ![cpu].at = "done", ![cpu].r = s.n,
                                             ![cpu].inc_seqs_clone = s.seqs,
                                             ![cpu].semiSmoothParts = s.parts]
          [] s.kind = "throw" ->
               /\ futures' = [futures EXCEPT ![cpu].at = "threw",
                                             ![cpu].inc_seqs_clone = s.seqs,
                                             ![cpu].semiSmoothParts = s.parts]
               /\ UNCHANGED worker
          [] s.kind = "undefined" ->
               /\ futures' = [futures EXCEPT ![cpu].at = "undefined"]
               /\ UNCHANGED worker
          [] OTHER ->
               /\ futures' =
                    [futures EXCEPT
                       ![cpu].at = IF isConOfSqr
                                      /\ Len(s.parts) >= worker.smoothPartsLimit
                                   THEN "flush" ELSE "acquire",
                       ![cpu].inc_seqs_clone = s.seqs,
                       ![cpu].semiSmoothParts = s.parts]
               /\ UNCHANGED worker
  /\ UNCHANGED <<args, levels, pc, outcome, returned, result, locals, rounds,
                 others>>

(* The loop of futures[cpu].get() (lines 992-997, 1026-1031): r replaces   *)
(* result when it is larger and is not toFactor                            *)
RECURSIVE Collect(_, _, _, _)
Collect(fs, cpu, n, res) ==
  IF cpu > Len(fs) THEN res
  ELSE Collect(fs, cpu + 1, n,
               IF fs[cpu].r > res /\ fs[cpu].r # n THEN fs[cpu].r ELSE res)

(* A get() that would also return while the thread is still appending *)
FinishedOrAppending(cpu) ==
  futures[cpu].at \in {"done", "threw", "undefined", "append"}

Finished(cpu) == futures[cpu].at \in {"done", "threw", "undefined"}

(* The driver has waited for every thread.  get() rethrows what a thread   *)
(* threw; otherwise brute-force mode returns the result, and               *)
(* congruence-of-squares mode returns it when it is a factor and goes on   *)
(* to the elimination stage when it is not.                                *)
Join ==
  /\ pc = "join"
  /\ \A cpu \in 1..CpuCount : Finished(cpu)
  /\ LET r == Collect(futures, 1, toFactor, result)
     IN IF \E cpu \in 1..CpuCount : futures[cpu].at = "undefined"
        THEN Fail("undefined") /\ UNCHANGED result
        ELSE IF \E cpu \in 1..CpuCount : futures[cpu].at = "threw"
        THEN Fail("exception") /\ UNCHANGED result
        ELSE /\ result' = r
             /\ IF ~isConOfSqr \/ (r # 1 /\ r # toFactor)
                THEN Return(r)
                ELSE pc' = "post" /\ UNCHANGED <<outcome, returned>>
  /\ UNCHANGED <<args, levels, locals, worker, futures, rounds, others>>

----------------------------------------------------------------------------
(* The congruence-of-squares stage                                         *)

RECURSIVE modExpLoop(_, _, _, _)
modExpLoop(base, exp, mod, res) ==
  IF exp = 0 THEN res
  ELSE modExpLoop(TMod(base * base, mod), Shr1(exp), mod,
                  IF exp % 2 = 1 THEN TMod(res * base, mod) ELSE res)

modExp(base, exp, mod) == modExpLoop(base, exp, mod, 1)

(* The for loop of factorizationVector over the primes (lines 597-607):    *)
(* each prime that divides factor is divided out once and flips its bit    *)
RECURSIVE FlipPrimes(_, _, _, _)
FlipPrimes(ps, pi, factor, vec) ==
  IF pi > Len(ps) THEN vec
  ELSE IF TMod(factor, ps[pi]) # 0 THEN FlipPrimes(ps, pi + 1, factor, vec)
  ELSE IF TDiv(factor, ps[pi]) = 1 THEN [vec EXCEPT ![pi] = ~vec[pi]]
  ELSE FlipPrimes(ps, pi + 1, TDiv(factor, ps[pi]), [vec EXCEPT ![pi] = ~vec[pi]])

(* factorizationVector with a single turn of its while(true) *)
factorizationLoopOnce(f, num, vec) ==
  LET factor == gcd(num, f.wheelRadius)
      rest == TDiv(num, factor)
      flipped == FlipPrimes(f.primes, 1, factor, vec)
  IN IF factor = 1 THEN (IF num # 1 THEN << >> ELSE vec)
     ELSE IF rest = 1 THEN flipped
     ELSE << >>

(* The while(true) of factorizationVector; << >> is the empty bitset that  *)
(* marks a number that is not smooth                                       *)
RECURSIVE factorizationLoop(_, _, _)
factorizationLoop(f, num, vec) ==
  LET factor == gcd(num, f.wheelRadius)
      rest == TDiv(num, factor)
      flipped == FlipPrimes(f.primes, 1, factor, vec)
  IN IF factor = 1 THEN (IF num # 1 THEN << >> ELSE vec)
     ELSE IF rest = 1 THEN flipped
     ELSE factorizationLoop(f, rest, flipped)

factorizationVector(f, num) ==
  factorizationLoop(f, num, [k \in 1..Len(f.primes) |-> FALSE])

Xor(a, b) == [k \in 1..Len(a) |-> a[k] # b[k]]

(* The first loop of makeSmoothNumbers: the parts with a non-empty vector *)
SmoothParts(f, semiSmoothParts) ==
  SelectSeq(semiSmoothParts, LAMBDA n : Len(factorizationVector(f, n)) > 0)

(* The second loop of makeSmoothNumbers without the reset of smoothNumber  *)
(* and fv after an append                                                  *)
RECURSIVE MultiplyDownNoReset(_, _, _, _, _, _)
MultiplyDownNoReset(f, smoothParts, spi, limit, smoothNumber, fv) ==
  IF spi > Len(smoothParts) THEN << >>
  ELSE LET sp == smoothParts[spi]
           v == Xor(fv, factorizationVector(f, sp))
           s == smoothNumber * sp
       IN IF s <= limit
          THEN MultiplyDownNoReset(f, smoothParts, spi + 1, limit, s, v)
          ELSE <<[key |-> s, value |-> v]>>
               \o MultiplyDownNoReset(f, smoothParts, spi + 1, limit, s, v)

(* The second loop of makeSmoothNumbers over the shuffled parts from spi:  *)
(* the rows it appends, in order                                           *)
RECURSIVE MultiplyDown(_, _, _, _, _, _)
MultiplyDown(f, smoothParts, spi, limit, smoothNumber, fv) ==
  IF spi > Len(smoothParts) THEN << >>
  ELSE LET sp == smoothParts[spi]
           v == Xor(fv, factorizationVector(f, sp))
           s == smoothNumber * sp
       IN IF s <= limit THEN MultiplyDown(f, smoothParts, spi + 1, limit, s, v)
          ELSE <<[key |-> s, value |-> v]>>
               \o MultiplyDown(f, smoothParts, spi + 1, limit, 1,
                               [k \in 1..Len(f.primes) |-> FALSE])

(* The orders std::shuffle may leave a sequence in *)
Shuffles(s) ==
  {[i \in 1..Len(s) |-> s[p[i]]] : p \in Permutations(1..Len(s))}

(* The rows makeSmoothNumbers appends for one order of the smooth parts *)
makeSmoothNumbers(f, shuffled, gaussElim) ==
  MultiplyDown(f, shuffled, 1, IF gaussElim THEN f.toFactor ELSE f.toFactorSqrt,
               1, [k \in 1..Len(f.primes) |-> FALSE])

(* makeSmoothNumbers up to its first append: the buffer is factorized,     *)
(* cleared and shuffled                                                    *)
Flush(cpu) ==
  /\ pc = "join"
  /\ futures[cpu].at = "flush"
  /\ \E shuffled \in Shuffles(SmoothParts(worker, futures[cpu].semiSmoothParts)) :
       futures' = [futures EXCEPT
                     ![cpu].at = "append",
                     ![cpu].semiSmoothParts = << >>,
                     ![cpu].pending = makeSmoothNumbers(worker, shuffled, isGaussElim)]
  /\ UNCHANGED <<args, levels, pc, outcome, returned, result, locals, worker,
                 rounds, others>>

(* One append under smoothNumberMapMutex; with nothing left to append      *)
(* makeSmoothNumbers is over and smoothCongruences returns 1               *)
AppendRow(cpu) ==
  /\ pc = "join"
  /\ futures[cpu].at = "append"
  /\ IF futures[cpu].pending = << >>
     THEN /\ futures' = [futures EXCEPT ![cpu].at = "done", ![cpu].r = 1]
          /\ UNCHANGED worker
     ELSE /\ worker' = [worker EXCEPT
                          !.smoothNumberValues =
                             Append(@, Head(futures[cpu].pending).value),
                          !.smoothNumberKeys =
                             Append(@, Head(futures[cpu].pending).key)]
          /\ futures' = [futures EXCEPT ![cpu].pending = Tail(@)]
  /\ UNCHANGED <<args, levels, pc, outcome, returned, result, locals, rounds,
                 others>>

(* Euclid's algorithm on signed numbers with the truncating %, whose      *)
(* result takes the sign the remainders leave                              *)
RECURSIVE SignedEuclid(_, _)
SignedEuclid(n1, n2) == IF n2 = 0 THEN n1 ELSE SignedEuclid(n2, TMod(n1, n2))

(* checkPerfectSquare as it would be with that gcd *)
checkPerfectSquareSigned(f, perfectSquare) ==
  LET x == TMod(perfectSquare, f.toFactor)
      y == modExp(x, Shr1(f.toFactor), f.toFactor)
      plus == SignedEuclid(f.toFactor, x + y)
      minus == SignedEuclid(f.toFactor, x - y)
  IN IF plus # 1 /\ plus # f.toFactor THEN plus
     ELSE IF x = y THEN 1
     ELSE IF minus # 1 /\ minus # f.toFactor THEN minus
     ELSE 1

(* checkPerfectSquare without the test factor != toFactor *)
checkPerfectSquareNoGuard(f, perfectSquare) ==
  LET x == TMod(perfectSquare, f.toFactor)
      y == modExp(x, Shr1(f.toFactor), f.toFactor)
      plus == mp_gcd(f.toFactor, x + y)
      minus == mp_gcd(f.toFactor, x - y)
  IN IF plus # 1 THEN plus
     ELSE IF x = y THEN 1
     ELSE IF minus # 1 THEN minus
     ELSE 1

(* checkPerfectSquare.  Both gcd calls pass an expression (x + y, x - y)   *)
(* and so reach the library's gcd.                                         *)
checkPerfectSquare(f, perfectSquare) ==
  LET x == TMod(perfectSquare, f.toFactor)
      y == modExp(x, Shr1(f.toFactor), f.toFactor)
      plus == mp_gcd(f.toFactor, x + y)
      minus == mp_gcd(f.toFactor, x - y)
  IN IF plus # 1 /\ plus # f.toFactor THEN plus
     ELSE IF x = y THEN 1
     ELSE IF minus # 1 /\ minus # f.toFactor THEN minus
     ELSE 1

(* The row updates of one pivot column of gaussianElimination: every row   *)
(* other than row col that has bit col set is XOR-ed with row col and its  *)
(* number multiplied by row col's.  The tasks split these rows by          *)
(* residue of the row index, so each row is updated once.                  *)
EliminateColumn(m, col) ==
  [keys |-> [r \in 1..Len(m.keys) |->
               IF r # col /\ m.values[r][col] THEN m.keys[r] * m.keys[col]
               ELSE m.keys[r]],
   values |-> [r \in 1..Len(m.values) |->
                 IF r # col /\ m.values[r][col] THEN Xor(m.values[r], m.values[col])
                 ELSE m.values[r]]]

(* Rows a and b of both vectors exchanged *)
SwapRows(m, a, b) ==
  [keys |-> [m.keys EXCEPT ![a] = m.keys[b], ![b] = m.keys[a]],
   values |-> [m.values EXCEPT ![a] = m.values[b], ![b] = m.values[a]]]

(* gaussianElimination from column col (counted from 1) on *)
RECURSIVE gaussianEliminationFrom(_, _, _)
gaussianEliminationFrom(m, col, cols) ==
  IF col > cols THEN m
  ELSE LET candidates == {row \in col..Len(m.values) : m.values[row][col]}
       IN IF candidates = {} THEN gaussianEliminationFrom(m, col + 1, cols)
          ELSE LET pivot == CHOOSE row \in candidates :
                              \A other \in candidates : row <= other
               IN gaussianEliminationFrom(
                    EliminateColumn(SwapRows(m, col, pivot), col), col + 1, cols)

gaussianElimination(f) ==
  gaussianEliminationFrom([keys |-> f.smoothNumberKeys,
                           values |-> f.smoothNumberValues], 1, Len(f.primes))

(* findFactor: the matrix after elimination and the factors the row tasks  *)
(* can leave in result.  Every task that finds a factor stores it, so any  *)
(* of them may be the one that stays.                                      *)
findFactorFound(f, target) ==
  LET m == gaussianElimination(f)
      g == [f EXCEPT !.smoothNumberKeys = m.keys, !.smoothNumberValues = m.values]
  IN {checkPerfectSquare(g, m.keys[i]) : i \in (Len(f.primes) + 1)..Len(m.keys)}
       \ {1, target}

(* findFactor without the resize after a search that found nothing *)
findFactorMatrixKeepAll(f, found) ==
  LET m == gaussianElimination(f)
  IN [f EXCEPT !.smoothNumberKeys = m.keys, !.smoothNumberValues = m.values]

findFactorMatrix(f, found) ==
  LET m == gaussianElimination(f)
  IN IF found
     THEN [f EXCEPT !.smoothNumberKeys = m.keys, !.smoothNumberValues = m.values]
     ELSE [f EXCEPT !.smoothNumberKeys = SubSeq(m.keys, 1, Len(f.primes)),
                    !.smoothNumberValues = SubSeq(m.values, 1, Len(f.primes))]

(* findDuplicateRows.  Rows are counted from 0 as in the code.  Task i     *)
(* compares the row its iterator points at, which started at the first    *)
(* row while i started at primes.size(), with the rows j >= startJ.        *)
DupMatches(f, i) ==
  {j \in Max(f.rowOffset, i + 1)..(Len(f.smoothNumberValues) - 1) :
     f.smoothNumberValues[i - Len(f.primes) + 1] = f.smoothNumberValues[j + 1]}

DupTasks(f) == Len(f.primes)..(Len(f.smoothNumberValues) - 2)

(* The factors the tasks can leave in result *)
findDuplicateRowsFound(f, target) ==
  {checkPerfectSquare(f, f.smoothNumberKeys[i + 1]) :
     i \in {t \in DupTasks(f) : DupMatches(f, t) # {}}} \ {1, target}

(* The rows the tasks strike when none of them finds a factor *)
ToStrike(f) ==
  UNION {{IF f.smoothNumberKeys[i + 1] < f.smoothNumberKeys[j + 1] THEN j ELSE i :
            j \in DupMatches(f, i)} : i \in DupTasks(f)}

(* The erase loop (lines 807-810) over the struck indices in increasing    *)
(* order, each applied to the vectors as the earlier erasures left them;   *)
(* an index at or past the end makes erase undefined                       *)
RECURSIVE EraseStruck(_, _, _)
EraseStruck(keys, values, strike) ==
  IF strike = {} THEN [keys |-> keys, values |-> values, defined |-> TRUE]
  ELSE LET i == CHOOSE s \in strike : \A t \in strike : s <= t
       IN IF i >= Len(keys)
          THEN [keys |-> keys, values |-> values, defined |-> FALSE]
          ELSE EraseStruck(SubSeq(keys, 1, i) \o SubSeq(keys, i + 2, Len(keys)),
                           SubSeq(values, 1, i) \o SubSeq(values, i + 2, Len(values)),
                           strike \ {i})

(* The elimination stage of the do-while (line 1040) and its loop test.    *)
(* With no row at all, rowCount - 1 of findDuplicateRows wraps around and  *)
(* its tasks read rows that do not exist.                                  *)
Post ==
  /\ pc = "post"
  /\ IF isGaussElim
     THEN LET found == findFactorFound(worker, toFactor)
          IN IF found # {}
             THEN \E factor \in found :
                    /\ result' = factor
                    /\ worker' = findFactorMatrix(worker, TRUE)
                    /\ Return(factor)
             ELSE /\ result' = 1
                  /\ worker' = findFactorMatrix(worker, FALSE)
                  /\ pc' = "spawn"
                  /\ UNCHANGED <<outcome, returned>>
     ELSE IF Len(worker.smoothNumberValues) = 0
     THEN Fail("undefined") /\ UNCHANGED <<result, worker>>
     ELSE LET found == findDuplicateRowsFound(worker, toFactor)
              erased == EraseStruck(worker.smoothNumberKeys,
                                    worker.smoothNumberValues, ToStrike(worker))
          IN IF found # {}
             THEN \E factor \in found :
                    /\ result' = factor
                    /\ Return(factor)
                    /\ UNCHANGED worker
             ELSE IF ~erased.defined
             THEN Fail("undefined") /\ UNCHANGED <<result, worker>>
             ELSE /\ result' = 1
                  /\ worker' = [worker EXCEPT !.smoothNumberKeys = erased.keys,
                                              !.smoothNumberValues = erased.values,
                                              !.rowOffset = Len(erased.keys)]
                  /\ pc' = "spawn"
                  /\ UNCHANGED <<outcome, returned>>
  /\ UNCHANGED <<args, levels, locals, futures, rounds, others>>

----------------------------------------------------------------------------
Next ==
  \/ Start
  \/ Trial
  \/ Setup
  \/ Spawn
  \/ \E cpu \in 1..CpuCount : Acquire(cpu)
  \/ \E cpu \in 1..CpuCount : Check(cpu)
  \/ \E cpu \in 1..CpuCount : Sweep(cpu)
  \/ \E cpu \in 1..CpuCount : Flush(cpu)
  \/ \E cpu \in 1..CpuCount : AppendRow(cpu)
  \/ Join
  \/ Post

Spec == Init /\ [][Next]_vars

----------------------------------------------------------------------------
(* The batch counters of the nodes of one job, each on its own: node i of  *)
(* nodeCount runs one thread that takes batches until isIncomplete is      *)
(* false.  handed[i] collects the batches the thread sweeps.               *)

mainIdle ==
  /\ toFactorStr = <<"0">>
  /\ isConOfSqr = FALSE
  /\ isGaussElim = FALSE
  /\ nodeCount = 1
  /\ nodeId = 0
  /\ trialDivisionLevel = 0
  /\ gearFactorizationLevel = 1
  /\ wheelFactorizationLevel = 1
  /\ smoothnessBoundMultiplier = 1
  /\ batchSizeMultiplier = 0
  /\ pc = "idle"
  /\ outcome = "running"
  /\ returned = << >>
  /\ toFactor = 0
  /\ fullMaxBase = 0
  /\ result = 1
  /\ primes = << >>
  /\ itw = 0
  /\ itg = 0
  /\ wgDiff = 0
  /\ inc_seqs = << >>
  /\ worker = NoFactorizer
  /\ futures = << >>
  /\ rounds = 0

mainVars == <<args, levels, pc, outcome, returned, result, locals, worker,
              futures, rounds>>

(* The counter fields of the Factorizer of node nId of nCount *)
NodeCounter(range, nCount, nId) ==
  [batchRange |-> range, batchNumber |-> 0, batchOffset |-> nId * range,
   batchTotal |-> nCount * range, isIncomplete |-> TRUE]

InitNodes ==
  /\ mainIdle
  /\ \E k \in 1..MaxNodes, range \in 1..MaxRange :
       /\ nodes = [i \in 1..k |-> NodeCounter(range, k, i - 1)]
       /\ handed = [i \in 1..k |-> {}]
  /\ trip = [on |-> FALSE]
  /\ AloneIdle

(* One turn of the for loop of bruteForce on node i: getNextAltBatch, then *)
(* the test of isIncomplete, then the sweep of the batch                   *)
NodeTakeBatch(i) ==
  /\ nodes[i].isIncomplete
  /\ LET got == getNextAltBatch(nodes[i])
     IN /\ nodes' = [nodes EXCEPT ![i] = got.f]
        /\ handed' = IF got.f.isIncomplete
                     THEN [handed EXCEPT ![i] = @ \cup {got.value}]
                     ELSE handed
  /\ UNCHANGED <<mainVars, trip, alone>>

NextNodes == \E i \in 1..Len(nodes) : NodeTakeBatch(i)

SpecNodes == InitNodes /\ [][NextNodes]_vars

----------------------------------------------------------------------------
(* The wheel maps on their own: an index or candidate x is taken through   *)
(* backward then forward, and through forward then backward, in the        *)
(* size_t and in the BigInteger variant of each wheel.                     *)

(* The size_t variant of each wheel's maps *)
forward_size_t(w, p) ==
  CASE w = WHEEL2 -> forward2(p)
    [] w = WHEEL3 -> forward3(p)
    [] w = WHEEL5 -> forward5(p)
    [] w = WHEEL7 -> forward7(p)
    [] w = WHEEL11 -> forward11(p)

backward_size_t(w, n) ==
  CASE w = WHEEL2 -> backward2(n)
    [] w = WHEEL3 -> backward3(n)
    [] w = WHEEL5 -> backward5(n)
    [] w = WHEEL7 -> backward7(n)
    [] w = WHEEL11 -> backward11(n)

Wheels == {WHEEL2, WHEEL3, WHEEL5, WHEEL7, WHEEL11}

(* arguments: 1..MaxIndex and the same stretch one turn of the largest     *)
(* wheel further                                                           *)
TripArguments == (1..MaxIndex) \cup (2310..(2310 + MaxIndex))

InitWheel ==
  /\ mainIdle
  /\ nodes = << >>
  /\ handed = << >>
  /\ AloneIdle
  /\ \E w \in Wheels, x \in TripArguments, big \in BOOLEAN :
       trip = [on |-> TRUE, w |-> w, x |-> x, big |-> big, at |-> "start",
               there |-> 0, back |-> 0]

(* backward, then forward of its result *)
TripFromCandidate ==
  /\ trip.on /\ trip.at = "start"
  /\ LET k == IF trip.big THEN backward(trip.w, trip.x)
              ELSE backward_size_t(trip.w, trip.x)
     IN trip' = [trip EXCEPT !.at = "candidate", !.there = k,
                   !.back = IF trip.big THEN forward(trip.w, k)
                            ELSE forward_size_t(trip.w, k)]
  /\ UNCHANGED <<mainVars, nodes, handed, alone>>

(* forward, then backward of its result *)
TripFromIndex ==
  /\ trip.on /\ trip.at = "start"
  /\ LET n == IF trip.big THEN forward(trip.w, trip.x)
              ELSE forward_size_t(trip.w, trip.x)
     IN trip' = [trip EXCEPT !.at = "index", !.there = n,
                   !.back = IF trip.big THEN backward(trip.w, n)
                            ELSE backward_size_t(trip.w, n)]
  /\ UNCHANGED <<mainVars, nodes, handed, alone>>

NextWheel == TripFromCandidate \/ TripFromIndex

SpecWheel == InitWheel /\ [][NextWheel]_vars

----------------------------------------------------------------------------
(* SieveOfEratosthenes on its own: one call with the bound sieve.n         *)

InitSieve ==
  /\ mainIdle
  /\ nodes = << >>
  /\ handed = << >>
  /\ trip = [on |-> FALSE]
  /\ \E n \in 0..MaxSieve :
       sieve = [on |-> TRUE, n |-> n, at |-> "start", knownPrimes |-> << >>,
                written |-> {}]
  /\ elim = [on |-> FALSE]
  /\ gear = [on |-> FALSE]
  /\ square = [on |-> FALSE]
  /\ vector = [on |-> FALSE]
  /\ root = [on |-> FALSE]
  /\ batches = [on |-> FALSE]

(* The call: the vector it returns and the indices of notPrime it wrote *)
RunSieve ==
  /\ sieve.on /\ sieve.at = "start"
  /\ sieve' = [sieve EXCEPT !.at = "done",
                            !.knownPrimes = SieveOfEratosthenes(sieve.n),
                            !.written = SieveWrites(sieve.n)]
  /\ UNCHANGED <<mainVars, nodes, handed, trip, elim, gear, square,
                 vector, root, batches>>

NextSieve == RunSieve

SpecSieve == InitSieve /\ [][NextSieve]_vars

----------------------------------------------------------------------------
(* gaussianElimination on its own, task by task.  elim.m is the matrix     *)
(* (smoothNumberKeys, smoothNumberValues), elim.col the column of the      *)
(* outer loop (from 1), elim.task[cpu] the row the task of that cpu is at  *)
(* (0 when it has returned).                                               *)

(* Factor bases: primes whose residue of the number passes the _sqrt test *)
FactorBases == {<<5>>, <<5, 7>>, <<5, 7, 11>>}

(* Keys of appended rows: products of one or two primes of the base *)
SmoothKeys(ps) ==
  {ps[a] * ps[b] : a, b \in 1..Len(ps)} \cup {ps[a] : a \in 1..Len(ps)}

(* The appended row for a key: makeSmoothNumbers stores the parity of the  *)
(* key's exponents                                                         *)
SmoothRow(ps, key) ==
  factorizationVector([primes |-> ps, wheelRadius |-> SeqProduct(ps)], key)

(* The matrix the constructor builds, followed by the appended rows *)
SeededMatrix(ps, appended) ==
  [keys |-> ps \o appended,
   values |-> [i \in 1..Len(ps) |-> UnitRow(i, Len(ps))]
                \o [k \in 1..Len(appended) |-> SmoothRow(ps, appended[k])]]

(* The number of tasks dispatched for a pivot column (line 697) *)
ElimOneTask(cpuCount, rows) == 1

ElimTasks(cpuCount, rows) == Min(cpuCount, rows)

(* The update of one row without the test row != col *)
ElimRowWithPivot(m, row, col) ==
  IF m.values[row][col]
  THEN [keys |-> [m.keys EXCEPT ![row] = m.keys[row] * m.keys[col]],
        values |-> [m.values EXCEPT ![row] = Xor(m.values[row], m.values[col])]]
  ELSE m

(* The update of one row with rm ^= cm alone, the number left as it is *)
ElimRowVectorOnly(m, row, col) ==
  IF row # col /\ m.values[row][col]
  THEN [keys |-> m.keys,
        values |-> [m.values EXCEPT ![row] = Xor(m.values[row], m.values[col])]]
  ELSE m

(* The update a task makes to one row (lines 704-709) *)
ElimRow(m, row, col) ==
  IF row # col /\ m.values[row][col]
  THEN [keys |-> [m.keys EXCEPT ![row] = m.keys[row] * m.keys[col]],
        values |-> [m.values EXCEPT ![row] = Xor(m.values[row], m.values[col])]]
  ELSE m

InitElim ==
  /\ mainIdle
  /\ nodes = << >>
  /\ handed = << >>
  /\ trip = [on |-> FALSE]
  /\ sieve = [on |-> FALSE]
  /\ \E ps \in FactorBases, count \in 0..MaxAppended, cpuCount \in 1..MaxTasks :
       \E appended \in [1..count -> SmoothKeys(ps)] :
         elim = [on |-> TRUE, primes |-> ps, cpuCount |-> cpuCount,
                 initial |-> SeededMatrix(ps, appended),
                 m |-> SeededMatrix(ps, appended),
                 col |-> 1, phase |-> "pivot", task |-> << >>]
  /\ gear = [on |-> FALSE]
  /\ square = [on |-> FALSE]
  /\ vector = [on |-> FALSE]
  /\ root = [on |-> FALSE]
  /\ batches = [on |-> FALSE]

(* The pivot search of one column (lines 676-690); a pivot starts the      *)
(* row-update tasks, none moves on to the next column                      *)
ElimPivot ==
  /\ elim.on /\ elim.phase = "pivot"
  /\ LET rows == Len(elim.m.values)
         candidates == {row \in elim.col..rows : elim.m.values[row][elim.col]}
         pivot == CHOOSE row \in candidates : \A other \in candidates : row <= other
     IN IF elim.col > Len(elim.primes)
        THEN elim' = [elim EXCEPT !.phase = "done"]
        ELSE IF candidates = {}
        THEN elim' = [elim EXCEPT !.col = elim.col + 1]
        ELSE elim' = [elim EXCEPT
                        !.m = SwapRows(elim.m, elim.col, pivot),
                        !.phase = "tasks",
                        !.task = [cpu \in 1..ElimTasks(elim.cpuCount, rows) |-> cpu]]
  /\ UNCHANGED <<mainVars, nodes, handed, trip, sieve, gear, square,
                 vector, root, batches>>

(* One turn of the loop of the task of cpu (lines 701-715) *)
ElimTaskStep(cpu) ==
  /\ elim.on /\ elim.phase = "tasks"
  /\ cpu \in 1..Len(elim.task)
  /\ elim.task[cpu] # 0
  /\ LET row == elim.task[cpu]
     IN elim' = [elim EXCEPT
                   !.m = ElimRow(elim.m, row, elim.col),
                   !.task[cpu] = IF row + elim.cpuCount > Len(elim.m.values)
                                 THEN 0 ELSE row + elim.cpuCount]
  /\ UNCHANGED <<mainVars, nodes, handed, trip, sieve, gear, square,
                 vector, root, batches>>

(* dispatch.finish() has returned: every task is over (line 722) *)
ElimFinish ==
  /\ elim.on /\ elim.phase = "tasks"
  /\ \A cpu \in 1..Len(elim.task) : elim.task[cpu] = 0
  /\ elim' = [elim EXCEPT !.phase = "pivot", !.col = elim.col + 1, !.task = << >>]
  /\ UNCHANGED <<mainVars, nodes, handed, trip, sieve, gear, square,
                 vector, root, batches>>

NextElim ==
  \/ ElimPivot
  \/ \E cpu \in 1..MaxTasks : ElimTaskStep(cpu)
  \/ ElimFinish

SpecElim == InitElim /\ [][NextElim]_vars

----------------------------------------------------------------------------
(* The walk of one batch on its own: the index p of the inner for loop of  *)
(* bruteForce and smoothCongruences and the thread's clone of the gears,   *)
(* one GetWheelIncrement per step.                                         *)

(* The wheel and gear set-up of find_a_factor (lines 891-893, 918-919,     *)
(* 943-962) for the sieve's primes ps and the two clamped levels           *)
WheelSetup(ps, wheelLevel, gearLevel) ==
  LET tw == upper_bound(ps, wheelLevel)
      tg == upper_bound(ps, gearLevel)
      gearFactorizationPrimes == SubSeq(ps, 1, tg)
      wheelFactorizationPrimes == SubSeq(ps, 1, tw)
      gears == wheel_gen(gearFactorizationPrimes)
  IN [wheelEntryCount |->
        WheelEntryCount(SeqProduct(gearFactorizationPrimes), wheelFactorizationPrimes),
      SMALLEST_WHEEL |-> wheelByPrimeCardinal(Len(gearFactorizationPrimes) - (tg - tw)),
      inc_seqs |-> SubSeq(gears, Len(gears) - (tg - tw) + 1, Len(gears)),
      gearFactorizationPrimes |-> gearFactorizationPrimes]

(* Clamped level pairs: every wheel with every gear level from it to 11 *)
GearPairs ==
  {wg \in {1, 2, 3, 5, 7, 11} \X {1, 2, 3, 5, 7, 11} : wg[1] <= wg[2]}

InitGear ==
  /\ mainIdle
  /\ nodes = << >>
  /\ handed = << >>
  /\ trip = [on |-> FALSE]
  /\ sieve = [on |-> FALSE]
  /\ elim = [on |-> FALSE]
  /\ \E wg \in GearPairs, batchNum \in 0..MaxBatch :
       \E s \in {WheelSetup(SieveOfEratosthenes(wg[2]), wg[1], wg[2])} :
          gear = [on |-> TRUE, at |-> "sweep", steps |-> 0,
                  forwardFn |-> s.SMALLEST_WHEEL,
                  wheelEntryCount |-> s.wheelEntryCount,
                  gearFactorizationPrimes |-> s.gearFactorizationPrimes,
                  inc_seqs |-> s.inc_seqs,
                  inc_seqs_clone |-> s.inc_seqs,
                  batchStart |-> batchNum * s.wheelEntryCount,
                  batchEnd |-> batchNum * s.wheelEntryCount + s.wheelEntryCount,
                  before |-> batchNum * s.wheelEntryCount,
                  p |-> batchNum * s.wheelEntryCount]
  /\ square = [on |-> FALSE]
  /\ vector = [on |-> FALSE]
  /\ root = [on |-> FALSE]
  /\ batches = [on |-> FALSE]

(* One turn of the inner for loop that goes on to the next candidate:      *)
(* p += GetWheelIncrement(inc_seqs), then the test p < batchEnd            *)
GearStep ==
  /\ gear.on /\ gear.at = "sweep"
  /\ LET g == GetWheelIncrement(gear.inc_seqs_clone)
     IN gear' = [gear EXCEPT !.before = gear.p,
                             !.p = gear.p + g.inc,
                             !.inc_seqs_clone = g.seqs,
                             !.steps = gear.steps + 1,
                             !.at = IF gear.p + g.inc < gear.batchEnd
                                    THEN "sweep" ELSE "end"]
  /\ UNCHANGED <<mainVars, nodes, handed, trip, sieve, elim, square,
                 vector, root, batches>>

NextGear == GearStep

SpecGear == InitGear /\ [][NextGear]_vars


----------------------------------------------------------------------------
(* One call of Factorizer::checkPerfectSquare on a Factorizer whose        *)
(* toFactor is N, for every N in 2..MaxSquareN and argument 0..MaxSquare   *)

InitSquare ==
  /\ mainIdle
  /\ nodes = << >>
  /\ handed = << >>
  /\ trip = [on |-> FALSE]
  /\ sieve = [on |-> FALSE]
  /\ elim = [on |-> FALSE]
  /\ gear = [on |-> FALSE]
  /\ vector = [on |-> FALSE]
  /\ root = [on |-> FALSE]
  /\ batches = [on |-> FALSE]
  /\ \E N \in 2..MaxSquareN, s \in 0..MaxSquare :
       square = [on |-> TRUE, at |-> "call", toFactor |-> N,
                 perfectSquare |-> s, factor |-> 0]

RunSquare ==
  /\ square.on /\ square.at = "call"
  /\ square' = [square EXCEPT
                  !.at = "done",
                  !.factor = checkPerfectSquare([toFactor |-> square.toFactor],
                                                square.perfectSquare)]
  /\ UNCHANGED <<mainVars, nodes, handed, trip, sieve, elim, gear,
                 vector, root, batches>>

NextSquare == RunSquare

SpecSquare == InitSquare /\ [][NextSquare]_vars

----------------------------------------------------------------------------
(* One call of Factorizer::factorizationVector on a Factorizer built for   *)
(* a factor base, for every argument in 1..MaxVectorN                      *)

VectorBases == FactorBases \cup {<<7, 13>>, <<11, 13>>}

InitVector ==
  /\ mainIdle
  /\ nodes = << >>
  /\ handed = << >>
  /\ trip = [on |-> FALSE]
  /\ sieve = [on |-> FALSE]
  /\ elim = [on |-> FALSE]
  /\ gear = [on |-> FALSE]
  /\ square = [on |-> FALSE]
  /\ root = [on |-> FALSE]
  /\ batches = [on |-> FALSE]
  /\ \E ps \in VectorBases, num \in 1..MaxVectorN :
       vector = [on |-> TRUE, at |-> "call", primes |-> ps,
                 wheelRadius |-> SeqProduct(ps), num |-> num, fv |-> << >>]

RunVector ==
  /\ vector.on /\ vector.at = "call"
  /\ vector' = [vector EXCEPT
                  !.at = "done",
                  !.fv = factorizationVector(
                           [primes |-> vector.primes,
                            wheelRadius |-> vector.wheelRadius], vector.num)]
  /\ UNCHANGED <<mainVars, nodes, handed, trip, sieve, elim, gear, square,
                 root, batches>>

NextVector == RunVector

SpecVector == InitVector /\ [][NextVector]_vars

----------------------------------------------------------------------------
(* The shared matrix in both settings: the calls of find_a_factor, where   *)
(* gaussianElimination is one step of the driver, and the stand-alone      *)
(* elimination, where it is taken task by task                             *)

InitMatrix == Init \/ InitElim

NextMatrix == Next \/ NextElim

SpecMatrix == InitMatrix /\ [][NextMatrix]_vars

----------------------------------------------------------------------------
(* One call of sqrt and one of _sqrt on the same argument 0..MaxRoot      *)

InitRoot ==
  /\ mainIdle
  /\ nodes = << >>
  /\ handed = << >>
  /\ trip = [on |-> FALSE]
  /\ sieve = [on |-> FALSE]
  /\ elim = [on |-> FALSE]
  /\ gear = [on |-> FALSE]
  /\ square = [on |-> FALSE]
  /\ vector = [on |-> FALSE]
  /\ batches = [on |-> FALSE]
  /\ \E toTest \in 0..MaxRoot :
       root = [on |-> TRUE, at |-> "call", toTest |-> toTest,
               big |-> 0, small |-> 0]

RunRoot ==
  /\ root.on /\ root.at = "call"
  /\ root' = [root EXCEPT !.at = "done",
                          !.big = sqrt(root.toTest),
                          !.small = _sqrt(root.toTest)]
  /\ UNCHANGED <<mainVars, nodes, handed, trip, sieve, elim, gear, square,
                 vector, batches>>

NextRoot == RunRoot

SpecRoot == InitRoot /\ [][NextRoot]_vars

(***************************************************************************)
(* The stand-alone variant (src/src/find_a_factor.cpp): one Factorizer     *)
(* shared by the worker threads that find_a_factor launches with           *)
(* std::async. Each worker runs getSmoothNumbers: it takes a batch with    *)
(* getNextBatch, sweeps it, and takes the next one until it is handed the  *)
(* sentinel.                                                               *)
(***************************************************************************)

(* Factorizer::Factorizer(range) *)
StandAloneFactorizer(range) ==
  [batchNumber |-> 0, batchBound |-> range, batchCount |-> range,
   isFinished |-> FALSE]

(* getNextBatch with the batches counted upwards *)
getNextBatchAscending(f) ==
  IF f.batchNumber = f.batchBound
  THEN [value |-> f.batchBound, f |-> f]
  ELSE [value |-> f.batchNumber,
        f |-> [f EXCEPT !.batchNumber = f.batchNumber + 1]]

(* Factorizer::getNextBatch, the whole call under batchMutex: the value    *)
(* returned and the Factorizer after it                                    *)
getNextBatch(f) ==
  LET batchResult == f.batchCount - (f.batchNumber + 1)
  IN IF f.batchNumber = f.batchBound
     THEN [value |-> f.batchBound, f |-> f]
     ELSE [value |-> batchResult,
           f |-> [f EXCEPT !.batchNumber = f.batchNumber + 1]]

InitBatches ==
  /\ mainIdle
  /\ nodes = << >>
  /\ handed = << >>
  /\ trip = [on |-> FALSE]
  /\ sieve = [on |-> FALSE]
  /\ elim = [on |-> FALSE]
  /\ gear = [on |-> FALSE]
  /\ square = [on |-> FALSE]
  /\ vector = [on |-> FALSE]
  /\ root = [on |-> FALSE]
  /\ \E range \in 0..MaxBatchBound, cpuCount \in 1..MaxWorkers :
       batches = [on |-> TRUE,
                  f |-> StandAloneFactorizer(range),
                  at |-> [w \in 1..cpuCount |-> "next"],
                  batchNum |-> [w \in 1..cpuCount |-> 0],
                  p |-> [w \in 1..cpuCount |-> 0],
                  calls |-> << >>,
                  swept |-> {}]

(* The head of the outer loop of getSmoothNumbers: worker w calls          *)
(* getNextBatch and either enters the batch or leaves the loop             *)
BatchTake(w) ==
  /\ batches.on /\ w \in DOMAIN batches.at /\ batches.at[w] = "next"
  /\ \E got \in {getNextBatch(batches.f)} :
       IF got.value < batches.f.batchBound
       THEN batches' = [batches EXCEPT
                          !.f = got.f,
                          !.at[w] = "sweep",
                          !.batchNum[w] = got.value,
                          !.p[w] = got.value * BatchWidth + 1,
                          !.calls = Append(@, [worker |-> w, value |-> got.value,
                                               before |-> batches.f.batchNumber,
                                               after |-> got.f.batchNumber]),
                          !.swept = @ \cup {<<w, got.value>>}]
       ELSE batches' = [batches EXCEPT
                          !.f = got.f,
                          !.at[w] = "done",
                          !.calls = Append(@, [worker |-> w, value |-> got.value,
                                               before |-> batches.f.batchNumber,
                                               after |-> got.f.batchNumber])]
  /\ UNCHANGED <<mainVars, nodes, handed, trip, sieve, elim, gear, square,
                 vector, root>>

(* One turn of the inner loop: p moves on by a wheel increment of at least *)
(* one; a common divisor sets isFinished and returns; a worker that reads  *)
(* isFinished set returns (the flag is a plain bool read without the       *)
(* mutex, so a worker may or may not see another worker's write)           *)
BatchSweep(w) ==
  /\ batches.on /\ w \in DOMAIN batches.at /\ batches.at[w] = "sweep"
  /\ \E wheelIncrement \in 1..2, divides \in BOOLEAN, seen \in BOOLEAN :
       LET p == batches.p[w] + wheelIncrement
           batchEnd == (batches.batchNum[w] + 1) * BatchWidth + 1
       IN IF divides
          THEN batches' = [batches EXCEPT !.f.isFinished = TRUE,
                                          !.at[w] = "done", !.p[w] = p]
          ELSE IF batches.f.isFinished /\ seen
          THEN batches' = [batches EXCEPT !.at[w] = "done", !.p[w] = p]
          ELSE IF p < batchEnd
          THEN batches' = [batches EXCEPT !.p[w] = p]
          ELSE batches' = [batches EXCEPT !.at[w] = "next", !.p[w] = p]
  /\ UNCHANGED <<mainVars, nodes, handed, trip, sieve, elim, gear, square,
                 vector, root>>

NextBatches == \E w \in 1..MaxWorkers : BatchTake(w) \/ BatchSweep(w)

SpecBatches == InitBatches /\ [][NextBatches]_vars

(* Every launched worker thread keeps running: std::async with             *)
(* std::launch::async gives each its own thread, and batchMutex is held    *)
(* only for the few statements of getNextBatch                             *)
SpecBatchesFair ==
  /\ SpecBatches
  /\ \A w \in 1..MaxWorkers : WF_vars(BatchTake(w) \/ BatchSweep(w))
----------------------------------------------------------------------------
(* Properties                                                              *)

IsPrime(n) == n > 1 /\ \A d \in 2..(n - 1) : n % d # 0

IsSemiprime(n) ==
  \E p \in 2..n : IsPrime(p) /\ n % p = 0 /\ IsPrime(n \div p) /\ p # n \div p

IsSquare(n) == \E m \in 0..n : m * m = n

RootOf(n) == CHOOSE m \in 0..n : m * m = n

(* The call was made on one node, as node 0, with levels that need no      *)
(* repair: the clamp has run and left 1 <= wheel <= gear                   *)
OneNode == nodeCount = 1 /\ nodeId = 0

LevelsInOrder ==
  /\ pc \notin {"start", "idle"}
  /\ 1 <= wheelFactorizationLevel /\ wheelFactorizationLevel <= 11
  /\ wheelFactorizationLevel <= gearFactorizationLevel

Returned == pc = "done" /\ outcome = "returned"

(* C1: whenever the call returns, the returned string parses to d = 1 or   *)
(* to a proper divisor of N (1 < d < N and N mod d = 0); never 0, a        *)
(* negative number or N itself, on every return path.                      *)
C1_ReturnsOneOrProperDivisor ==
  Returned =>
    LET d == BigInteger(returned)
        N == BigInteger(toFactorStr)
    IN d = 1 \/ (1 < d /\ d < N /\ N % d = 0)

(* A call that returned a factor found by the elimination stage, from a   *)
(* row the threads appended                                                *)
C1_Witness ==
  /\ Returned
  /\ isConOfSqr
  /\ worker.constructed
  /\ Len(worker.smoothNumberKeys) > Len(worker.primes)
  /\ BigInteger(returned) > 1
  /\ \A cpu \in 1..Len(futures) : futures[cpu].r = 1

(* C2: for a semiprime N = p * q, brute-force mode on one node returns p   *)
(* or q and never 1, whatever the trial division level and for every       *)
(* wheel in [1, 11] and gear >= wheel.                                     *)
C2_SemiprimeFactored ==
  (/\ Returned /\ ~isConOfSqr /\ OneNode /\ LevelsInOrder
   /\ IsSemiprime(BigInteger(toFactorStr)))
    => LET d == BigInteger(returned)
           N == BigInteger(toFactorStr)
       IN d # 1 /\ d # N /\ N % d = 0

(* C3: for every prime N <= trialDivisionLevel^2 (2, 3, 5 and 7 included)  *)
(* the call returns "1", in brute-force and in congruence-of-squares mode. *)
C3_PrimeReturnsOne ==
  (/\ pc = "done" /\ OneNode /\ LevelsInOrder
   /\ IsPrime(BigInteger(toFactorStr))
   /\ BigInteger(toFactorStr) <= trialDivisionLevel * trialDivisionLevel)
    => (outcome = "returned" /\ returned = <<"1">>)

(* C4: a perfect square N = m^2 (N = 1 and N = 4 included) returns m from  *)
(* the early check, before any sieve, trial division or sweep.             *)
C4_SquareReturnsRootEarly ==
  (/\ pc \notin {"start", "idle"} /\ IsSquare(BigInteger(toFactorStr)))
    => (/\ Returned
        /\ returned = lexical_cast(RootOf(BigInteger(toFactorStr)))
        /\ primes = << >>
        /\ ~worker.constructed)

(* C5: in congruence-of-squares mode, once batchNumber >= batchRange and   *)
(* the elimination stage has found no factor, the do-while exits and the   *)
(* call returns "1".                                                       *)
C5_ExhaustedLoopExits ==
  [][(/\ pc = "post" /\ OneNode /\ LevelsInOrder
      /\ worker.batchNumber >= worker.batchRange
      /\ result' = 1)
       => (outcome' = "returned" /\ returned' = <<"1">>)]_vars

(* C6: in brute-force mode, when no candidate divides N, every thread      *)
(* returns 1 at its first getNextAltBatch after batchNumber >= batchRange, *)
(* the call returns "1", and getNextAltBatch is called at most             *)
(* batchRange + (number of threads) times.                                 *)
C6_BruteForceEndsWithOne ==
  (/\ ~isConOfSqr /\ OneNode /\ LevelsInOrder /\ worker.constructed
   /\ IsPrime(BigInteger(toFactorStr)))
    => (/\ worker.batchNumber <= Max(worker.batchRange, 0) + CpuCount
        /\ \A cpu \in 1..Len(futures) :
             /\ futures[cpu].at \in {"acquire", "check", "sweep", "done"}
             /\ futures[cpu].at = "done" => futures[cpu].r = 1
        /\ pc = "done" => (outcome = "returned" /\ returned = <<"1">>))

(* C7: a call with nodeId >= nodeCount (nodeCount = 0 included) ends in an *)
(* error: no Factorizer is constructed, no batch is handed out and no      *)
(* factor string is returned.                                              *)
C7_BadNodeRejected ==
  (pc # "idle" /\ nodeId >= nodeCount)
    => (~worker.constructed /\ outcome # "returned")

(* C8: after the clamp, for every pair of levels passed in (zeros          *)
(* included), 1 <= wheel <= 11 and gear >= wheel, so that wgDiff >= 0.     *)
C8_ClampOrdersLevels ==
  (pc \notin {"start", "idle"})
    => (/\ 1 <= wheelFactorizationLevel /\ wheelFactorizationLevel <= 11
        /\ gearFactorizationLevel >= wheelFactorizationLevel
        /\ wgDiff >= 0)

(* C9: when the nodes 0..k-1 of a job have all run out of batches, the     *)
(* sets of batch indices handed out to them partition [0, k * batchRange). *)
C9_BatchesPartition ==
  (nodes # << >> /\ \A i \in 1..Len(nodes) : ~nodes[i].isIncomplete)
    => (/\ \A i, j \in 1..Len(nodes) : i # j => handed[i] \cap handed[j] = {}
        /\ UNION {handed[i] : i \in 1..Len(nodes)}
             = 0..(Len(nodes) * nodes[1].batchRange - 1))

(* C10: forward(backward(n)) = n for every n coprime to the wheel's radius *)
(* and backward(forward(k)) = k for every k >= 1, for wheel 11 in its      *)
(* size_t and BigInteger variants and for wheels 2, 3, 5 and 7.            *)
C10_WheelRoundTrip ==
  /\ (trip.on /\ trip.at = "candidate" /\ mp_gcd(trip.x, trip.w) = 1)
       => trip.back = trip.x
  /\ (trip.on /\ trip.at = "index") => trip.back = trip.x

(* The primes of a wheel's radius and the numbers they leave *)
WheelPrimes(w) == {p \in {2, 3, 5, 7, 11} : w % p = 0}

CoprimeTo(w, n) == \A p \in WheelPrimes(w) : n % p # 0

(* How many of 1..n are coprime to the radius w, counted turn by turn *)
CountCoprime(w, n) ==
  (n \div w) * Cardinality({j \in 1..w : CoprimeTo(w, j)})
    + Cardinality({j \in 1..(n % w) : CoprimeTo(w, j)})

(* C11: for each wheel, forward(k) for k >= 1 is the k-th positive integer *)
(* coprime to the wheel's radius (forward(1) = 1), and forward(k + 1) is   *)
(* larger, so that k = 1, 2, 3, ... visits the coprime integers once each   *)
(* in ascending order.                                                     *)
C11_ForwardIsKthCoprime ==
  (trip.on /\ trip.at = "index") =>
    /\ CoprimeTo(trip.w, trip.there)
    /\ CountCoprime(trip.w, trip.there) = trip.x
    /\ trip.there < (IF trip.big THEN forward(trip.w, trip.x + 1)
                     ELSE forward_size_t(trip.w, trip.x + 1))

(* C12: for every bound n >= 2 the sieve returns exactly the primes <= n,  *)
(* each once, in ascending order; for n < 2 it returns the empty list; and *)
(* every index of notPrime it writes lies in [0, backward5(n)].            *)
C12_SieveReturnsPrimes ==
  (sieve.on /\ sieve.at = "done") =>
    LET ps == sieve.knownPrimes
    IN /\ \A k \in 1..Len(ps) : IsPrime(ps[k]) /\ ps[k] <= sieve.n
       /\ \A k \in 1..(Len(ps) - 1) : ps[k] < ps[k + 1]
       /\ \A p \in 2..sieve.n : IsPrime(p) => \E k \in 1..Len(ps) : ps[k] = p
       /\ sieve.n < 2 => ps = << >>
       /\ \A i \in sieve.written : 0 <= i /\ i <= backward5(sieve.n)

(* A call with n >= 121, in which the loop over the primes p with          *)
(* p * p <= n has marked composites before the primes were collected       *)
C12_Witness ==
  /\ sieve.on /\ sieve.at = "done"
  /\ sieve.n >= 121
  /\ sieve.written # {}
  /\ Len(sieve.knownPrimes) > 4

(* C13: after gaussianElimination on a matrix whose first |factor base|    *)
(* rows are the seed rows, every row after them (none of which is a pivot  *)
(* row) has the all-zero exponent vector, whatever rows were appended and  *)
(* however many row-update tasks ran.                                      *)
C13_AppendedRowsZero ==
  (elim.on /\ elim.phase = "done") =>
    \A i \in (Len(elim.primes) + 1)..Len(elim.m.values) :
      \A k \in 1..Len(elim.primes) : ~elim.m.values[i][k]

(* An elimination by two or more tasks that has cleared an appended row    *)
(* with an odd exponent and multiplied its key                             *)
C13_Witness ==
  /\ elim.on /\ elim.phase = "done"
  /\ elim.cpuCount >= 2
  /\ \E i \in (Len(elim.primes) + 1)..Len(elim.m.values) :
       /\ \E k \in 1..Len(elim.primes) : elim.initial.values[i][k]
       /\ elim.m.keys[i] # elim.initial.keys[i]

(* C14: with any number of threads calling getNextAltBatch, batchNumber    *)
(* goes up by exactly 1 per call, and no two threads hold the same batch   *)
(* index from calls that found isIncomplete true (each batch is handed out *)
(* to one call only).                                                      *)
C14_BatchHandedOnce ==
  /\ [][(worker.constructed /\ worker'.constructed
         /\ worker'.batchNumber # worker.batchNumber)
          => worker'.batchNumber = worker.batchNumber + 1]_vars
  /\ [](\A a, b \in 1..Len(futures) :
          (a # b /\ futures[a].at = "sweep" /\ futures[b].at = "sweep")
            => futures[a].batchNum # futures[b].batchNum)

(* d is a nontrivial factor of n *)
NontrivialFactor(d, n) == 1 < d /\ d < n /\ n % d = 0

(* C15: on one node with levels in order, isIncomplete is a one-way latch. *)
(* It starts true; a step clears it                                        *)
(* only if it is a getNextAltBatch with batchNumber >= batchRange or the   *)
(* sweep of a thread that found a nontrivial factor; it is never set       *)
(* again; and a thread that reads it cleared after an acquisition returns  *)
(* 1 without sweeping the batch it holds.                                  *)
C15_LatchOneWay ==
  [][(worker'.constructed /\ OneNode /\ LevelsInOrder) =>
      /\ ~worker.constructed => worker'.isIncomplete
      /\ (worker.constructed /\ ~worker.isIncomplete) => ~worker'.isIncomplete
      /\ (worker.constructed /\ worker.isIncomplete /\ ~worker'.isIncomplete) =>
           \/ /\ worker.batchNumber >= worker.batchRange
              /\ worker'.batchNumber = worker.batchNumber + 1
           \/ \E cpu \in 1..Len(futures) :
                /\ futures[cpu].at = "sweep"
                /\ futures'[cpu].at = "done"
                /\ NontrivialFactor(futures'[cpu].r, toFactor)
      /\ \A cpu \in 1..Len(futures) :
           (/\ worker.constructed /\ ~worker.isIncomplete
            /\ futures[cpu].at = "check"
            /\ futures'[cpu] # futures[cpu])
             => (futures'[cpu].at = "done" /\ futures'[cpu].r = 1)]_vars

(* A thread started with std::async that has not returned yet *)
StillRunning(cpu) ==
  futures[cpu].at \in {"acquire", "check", "sweep", "flush", "append"}

(* The two shared vectors after the step are the ones before it, or those  *)
(* with one row appended to both                                           *)
GrownByAppend ==
  \/ /\ worker'.smoothNumberKeys = worker.smoothNumberKeys
     /\ worker'.smoothNumberValues = worker.smoothNumberValues
  \/ /\ Len(worker'.smoothNumberKeys) = Len(worker.smoothNumberKeys) + 1
     /\ Len(worker'.smoothNumberValues) = Len(worker.smoothNumberValues) + 1
     /\ SubSeq(worker'.smoothNumberKeys, 1, Len(worker.smoothNumberKeys))
          = worker.smoothNumberKeys
     /\ SubSeq(worker'.smoothNumberValues, 1, Len(worker.smoothNumberValues))
          = worker.smoothNumberValues

(* C16: in congruence-of-squares mode the phases never overlap.  While a   *)
(* thread is running, a step leaves the rows of smoothNumberKeys and       *)
(* smoothNumberValues as they are or appends one row to both; the steps of *)
(* the elimination stage (reordering, resize, erase, the new rowOffset)    *)
(* are taken only when every thread has been joined; and threads are       *)
(* started only when none is running and the stage has returned.           *)
C16_PhasesDoNotOverlap ==
  [][(isConOfSqr /\ worker.constructed /\ worker'.constructed) =>
      /\ (\E cpu \in 1..Len(futures) : StillRunning(cpu))
           => (GrownByAppend /\ worker'.rowOffset = worker.rowOffset)
      /\ (~GrownByAppend \/ pc = "post")
           => \A cpu \in 1..Len(futures) : ~StillRunning(cpu)
      /\ (\E cpu \in 1..Len(futures') :
            futures'[cpu].at = "acquire"
            /\ (cpu > Len(futures) \/ ~StillRunning(cpu)))
           => (pc = "spawn" /\ \A cpu \in 1..Len(futures) : ~StillRunning(cpu))]_vars

(* The second round of threads has just been started on a matrix that      *)
(* still holds rows appended in the first round, after the elimination     *)
(* stage between them                                                      *)
C16_Witness ==
  /\ isConOfSqr
  /\ rounds = 2
  /\ pc = "join"
  /\ \A cpu \in 1..Len(futures) : futures[cpu].at = "acquire"
  /\ Len(worker.smoothNumberKeys) > Len(worker.primes)

(* n has no divisor among the primes ps *)
CoprimeToAll(n, ps) == \A k \in 1..Len(ps) : n % ps[k] # 0

(* C17: in a batch sweep that starts at p = batchNum * wheelEntryCount     *)
(* with the gears in their initial state, after each GetWheelIncrement the *)
(* candidate forwardFn(p) of the new index p of the batch is coprime to    *)
(* all wheel and gear primes, and no index passed over has a candidate     *)
(* coprime to all of them.                                                 *)
C17_GearsLandOnCoprime ==
  (gear.on /\ gear.steps > 0) =>
    /\ gear.p < gear.batchEnd
         => CoprimeToAll(forward(gear.forwardFn, gear.p), gear.gearFactorizationPrimes)
    /\ \A q \in (gear.before + 1)..(gear.p - 1) :
         q < gear.batchEnd
           => ~CoprimeToAll(forward(gear.forwardFn, q), gear.gearFactorizationPrimes)

(* The number of set bits of a gear *)
SetBits(wheel) == Cardinality({k \in 1..Len(wheel) : wheel[k]})

(* C18: GetWheelIncrement only rotates the gears: every gear keeps its     *)
(* length and its number of set bits, and when a complete batch of         *)
(* wheelEntryCount indices has been swept, p equals batchEnd exactly and   *)
(* every gear has its initial content again.                               *)
C18_GearsRotate ==
  gear.on =>
    /\ Len(gear.inc_seqs_clone) = Len(gear.inc_seqs)
    /\ \A i \in 1..Len(gear.inc_seqs) :
         /\ Len(gear.inc_seqs_clone[i]) = Len(gear.inc_seqs[i])
         /\ SetBits(gear.inc_seqs_clone[i]) = SetBits(gear.inc_seqs[i])
    /\ gear.at = "end"
         => (gear.p = gear.batchEnd /\ gear.inc_seqs_clone = gear.inc_seqs)

(* The end of a batch other than the first, swept in several steps with    *)
(* two or more gears in place                                              *)
C18_Witness ==
  /\ gear.on /\ gear.at = "end"
  /\ gear.batchStart > 0
  /\ gear.steps > 1
  /\ Len(gear.inc_seqs) >= 2
  /\ \A i \in 1..Len(gear.inc_seqs) : SetBits(gear.inc_seqs[i]) > 0

(* base^exp mod n by repeated multiplication *)
RECURSIVE PowMod(_, _, _)
PowMod(base, exp, n) ==
  IF exp = 0 THEN 1 % n ELSE (base * PowMod(base, exp - 1, n)) % n

(* The greatest common divisor of n >= 1 and any integer b *)
GreatestCommonDivisor(n, b) ==
  CHOOSE d \in 1..n :
    /\ n % d = 0 /\ b % d = 0
    /\ \A e \in 1..n : (n % e = 0 /\ b % e = 0) => e <= d

(* The first of gcd(n, x+y), gcd(n, x-y) strictly between 1 and n, else 1  *)
FirstProperGcd(n, x, y) ==
  LET plus == GreatestCommonDivisor(n, x + y)
      minus == GreatestCommonDivisor(n, x - y)
  IN IF 1 < plus /\ plus < n THEN plus
     ELSE IF 1 < minus /\ minus < n THEN minus
     ELSE 1

(* C19: for every N >= 2 and s >= 0, checkPerfectSquare(s) with            *)
(* x = s mod N and y = x^floor(N/2) mod N returns the first of             *)
(* gcd(N, x+y), gcd(N, x-y) that is strictly between 1 and N, and 1 when   *)
(* neither is; the result is in [1, N-1] and divides N, also when x < y.   *)
C19_FirstProperGcd ==
  (square.on /\ square.at = "done") =>
    LET N == square.toFactor
        x == square.perfectSquare % N
        y == PowMod(x, N \div 2, N)
    IN /\ square.factor = FirstProperGcd(N, x, y)
       /\ square.factor \in 1..(N - 1)
       /\ N % square.factor = 0

(* A call with x < y where only the second gcd, of the negative x - y,     *)
(* gives a proper divisor                                                  *)
C19_Witness ==
  /\ square.on /\ square.at = "done"
  /\ LET N == square.toFactor
         x == square.perfectSquare % N
         y == PowMod(x, N \div 2, N)
     IN /\ x < y
        /\ GreatestCommonDivisor(N, x + y) \in {1, N}
        /\ square.factor > 1

(* The rows j >= max(rowOffset, i+1) whose vector equals the vector stored *)
(* at index i (rows counted from 0)                                        *)
OwnRowMatches(f, i) ==
  {j \in Max(f.rowOffset, i + 1)..(Len(f.smoothNumberValues) - 1) :
     f.smoothNumberValues[i + 1] = f.smoothNumberValues[j + 1]}

(* C20: when findDuplicateRows is about to run, the rows j that make task  *)
(* i strike a row and call checkPerfectSquare(smoothNumberKeys[i]) are     *)
(* exactly the rows j >= max(rowOffset, i+1) whose vector equals the       *)
(* vector stored at index i, for every row i from the factor base on.      *)
C20_ComparesOwnRow ==
  (pc = "post" /\ ~isGaussElim /\ worker.constructed
     /\ Len(worker.smoothNumberValues) > 0)
    => \A i \in DupTasks(worker) :
         DupMatches(worker, i) = OwnRowMatches(worker, i)

(* The rows of a vector whose index, counted from 0, is not in strike *)
RECURSIVE KeepRows(_, _, _)
KeepRows(rows, strike, i) ==
  IF i >= Len(rows) THEN << >>
  ELSE (IF i \in strike THEN << >> ELSE <<rows[i + 1]>>)
         \o KeepRows(rows, strike, i + 1)

(* findDuplicateRows is about to run on a matrix with at least one row *)
DuplicateRowsCall ==
  /\ pc = "post" /\ isConOfSqr /\ ~isGaussElim
  /\ worker.constructed
  /\ Len(worker.smoothNumberValues) > 0

(* C21: a findDuplicateRows call that finds no factor removes exactly the  *)
(* rows whose indices are in toStrike, with every erase inside the vector, *)
(* keeps the other rows paired and in order, and sets rowOffset to the new *)
(* row count; a call that finds a factor removes nothing.                  *)
C21_StrikesTriedRows ==
  [][DuplicateRowsCall =>
       IF findDuplicateRowsFound(worker, toFactor) # {}
       THEN worker' = worker
       ELSE /\ outcome' # "undefined"
            /\ worker'.smoothNumberKeys
                 = KeepRows(worker.smoothNumberKeys, ToStrike(worker), 0)
            /\ worker'.smoothNumberValues
                 = KeepRows(worker.smoothNumberValues, ToStrike(worker), 0)
            /\ worker'.rowOffset = Len(worker'.smoothNumberKeys)]_vars

(* The exponent of p in n *)
RECURSIVE Exponent(_, _)
Exponent(p, n) == IF n % p # 0 THEN 0 ELSE 1 + Exponent(p, n \div p)

(* p to the power e *)
RECURSIVE Power(_, _)
Power(p, e) == IF e = 0 THEN 1 ELSE p * Power(p, e - 1)

(* n is a product of primes of ps, with any multiplicities *)
ProductOfPrimes(ps, n) ==
  n = SeqProduct([k \in 1..Len(ps) |-> Power(ps[k], Exponent(ps[k], n))])

(* The parities of the exponents of the primes of ps in n *)
ParityVector(ps, n) == [k \in 1..Len(ps) |-> Exponent(ps[k], n) % 2 = 1]

(* C22: with a non-empty factor base and n >= 1, factorizationVector(n)    *)
(* returns, for n a product of factor-base primes (n = 1 included), the    *)
(* vector of the parities of the exponents, of length |factor base|, and   *)
(* for any other n the empty vector.                                       *)
C22_VectorIsParity ==
  (vector.on /\ vector.at = "done") =>
    vector.fv = IF ProductOfPrimes(vector.primes, vector.num)
                THEN ParityVector(vector.primes, vector.num)
                ELSE << >>

(* A call on a number with one prime squared and another to the first      *)
(* power, which takes two turns of the loop                                *)
C22_Witness ==
  /\ vector.on /\ vector.at = "done"
  /\ \E j, k \in 1..Len(vector.primes) :
       /\ Exponent(vector.primes[j], vector.num) = 2
       /\ Exponent(vector.primes[k], vector.num) = 1
  /\ vector.fv = ParityVector(vector.primes, vector.num)

(* The parts of a buffer that are products of primes of ps *)
Survivors(ps, parts) ==
  SelectSeq(parts, LAMBDA n : n >= 1 /\ ProductOfPrimes(ps, n))

(* The XOR of the parity vectors of parts[a..b] *)
RECURSIVE XorOfRun(_, _, _, _)
XorOfRun(ps, parts, a, b) ==
  IF a > b THEN [k \in 1..Len(ps) |-> FALSE]
  ELSE Xor(XorOfRun(ps, parts, a, b - 1), ParityVector(ps, parts[b]))

(* rec is the record of the run parts[a..b]: its product passes limit with *)
(* its last part and not before                                            *)
RecordOfRun(ps, parts, a, b, limit, rec) ==
  /\ rec.key = SeqProduct(SubSeq(parts, a, b))
  /\ rec.value = XorOfRun(ps, parts, a, b)
  /\ rec.key > limit
  /\ SeqProduct(SubSeq(parts, a, b - 1)) <= limit

(* C23: a makeSmoothNumbers call empties the thread's buffer and, for the  *)
(* order the shuffle gave, queues only records (product, vector) of runs   *)
(* of consecutive shuffled survivors, each product above the limit         *)
(* (toFactorSqrt in duplicate-row mode, toFactor with Gaussian             *)
(* elimination) with its last part and not without it; each record is then *)
(* appended to smoothNumberKeys and smoothNumberValues in a single step.   *)
C23_RecordsAreRuns ==
  [][\A cpu \in 1..Len(futures) :
       /\ (pc = "join" /\ Len(futures') = Len(futures)
           /\ futures[cpu].at = "flush" /\ futures'[cpu].at = "append")
            => /\ futures'[cpu].semiSmoothParts = << >>
               /\ \E shuffled \in Shuffles(Survivors(worker.primes,
                                                     futures[cpu].semiSmoothParts)) :
                    \A r \in 1..Len(futures'[cpu].pending) :
                      \E a \in 1..Len(shuffled) : \E b \in a..Len(shuffled) :
                        RecordOfRun(worker.primes, shuffled, a, b,
                                    IF isGaussElim THEN toFactor
                                    ELSE sqrt(toFactor),
                                    futures'[cpu].pending[r])
       /\ (pc = "join" /\ Len(futures') = Len(futures)
           /\ futures[cpu].at = "append" /\ futures[cpu].pending # << >>
           /\ futures'[cpu] # futures[cpu])
            => /\ worker'.smoothNumberKeys
                    = Append(worker.smoothNumberKeys, futures[cpu].pending[1].key)
               /\ worker'.smoothNumberValues
                    = Append(worker.smoothNumberValues, futures[cpu].pending[1].value)
               /\ futures'[cpu].pending = Tail(futures[cpu].pending)]_vars

(* A thread has emptied its buffer and queued a record whose product is    *)
(* above toFactor and whose vector has a set bit                           *)
C23_Witness ==
  /\ pc = "join"
  /\ \E cpu \in 1..Len(futures) :
       /\ futures[cpu].at = "append"
       /\ futures[cpu].semiSmoothParts = << >>
       /\ \E r \in 1..Len(futures[cpu].pending) :
            /\ futures[cpu].pending[r].key > toFactor
            /\ \E k \in 1..Len(worker.primes) : futures[cpu].pending[r].value[k]

(* Every row pairs a product of primes of ps with its parity vector *)
MatrixConsistent(ps, keys, values) ==
  /\ Len(keys) = Len(values)
  /\ \A i \in 1..Len(keys) :
       /\ Len(values[i]) = Len(ps)
       /\ keys[i] >= 1
       /\ ProductOfPrimes(ps, keys[i])
       /\ values[i] = ParityVector(ps, keys[i])

(* C24: whenever no append is half done, smoothNumberKeys and              *)
(* smoothNumberValues have the same length and every row's vector has      *)
(* length |factor base| and is the exponent-parity vector of the row's     *)
(* key, a product of factor-base primes: after seeding, after every        *)
(* append, after every swap and row update of gaussianElimination and      *)
(* after the row removals of findFactor and findDuplicateRows.             *)
C24_RowsAreParityVectors ==
  /\ worker.constructed =>
       MatrixConsistent(worker.primes, worker.smoothNumberKeys,
                        worker.smoothNumberValues)
  /\ elim.on => MatrixConsistent(elim.primes, elim.m.keys, elim.m.values)

(* A task of the elimination has updated an appended row: its key is now   *)
(* a multiple of the pivot key and larger than it was                      *)
C24_Witness ==
  /\ elim.on
  /\ \E i \in (Len(elim.primes) + 1)..Len(elim.m.keys) :
       /\ elim.m.keys[i] > elim.initial.keys[i]
       /\ elim.m.values[i] # elim.initial.values[i]

(* Rows 1..|ps| are the seed rows: key p_i with the unit vector e_i *)
SeedRowsInPlace(ps, keys, values) ==
  /\ Len(keys) >= Len(ps)
  /\ Len(values) >= Len(ps)
  /\ \A i \in 1..Len(ps) :
       /\ keys[i] = ps[i]
       /\ values[i] = [k \in 1..Len(ps) |-> k = i]

(* C25: after any sequence of flushes, gaussianElimination/findFactor      *)
(* calls and findDuplicateRows calls, the first |factor base| rows of the  *)
(* matrix are the seed rows (p_i, e_i); and a findFactor call that finds   *)
(* no factor leaves these rows and no other.                               *)
C25_SeedRowsStay ==
  /\ [](worker.constructed =>
          SeedRowsInPlace(worker.primes, worker.smoothNumberKeys,
                          worker.smoothNumberValues))
  /\ [](elim.on => SeedRowsInPlace(elim.primes, elim.m.keys, elim.m.values))
  /\ [][(pc = "post" /\ isGaussElim /\ worker.constructed
           /\ findFactorFound(worker, toFactor) = {})
          => Len(worker'.smoothNumberKeys) = Len(worker.primes)
             /\ Len(worker'.smoothNumberValues) = Len(worker.primes)]_vars

(* findFactor is about to run, and to find no factor, on a matrix of two   *)
(* or more seed rows and an appended row with an odd exponent              *)
C25_Witness ==
  /\ pc = "post" /\ isConOfSqr /\ isGaussElim /\ worker.constructed
  /\ Len(worker.primes) >= 2
  /\ \E i \in (Len(worker.primes) + 1)..Len(worker.smoothNumberKeys) :
       \E k \in 1..Len(worker.primes) : worker.smoothNumberValues[i][k]
  /\ findFactorFound(worker, toFactor) = {}

(* m is the floor square root of n: the largest m with m * m <= n *)
IsFloorRoot(m, n) == m >= 0 /\ m * m <= n /\ (m + 1) * (m + 1) > n

(* C26: for every n >= 0 (0, 1, 2 and 3 included), sqrt(n) and _sqrt(n)    *)
(* return the largest m with m * m <= n.                                   *)
C26_FloorSquareRoot ==
  (root.on /\ root.at = "done") =>
    /\ IsFloorRoot(root.big, root.toTest)
    /\ IsFloorRoot(root.small, root.toTest)

(* r is the square of an integer *)
IsPerfectSquare(r) == \E m \in 0..r : m * m = r

(* The primes of ps, in order, whose residue of n is a perfect square *)
SquareResiduePrimes(n, ps) ==
  SelectSeq(ps, LAMBDA p : IsPerfectSquare(n % p))

(* The smooth prime count the driver asks for (lines 921-925) *)
RequestedPrimeCount ==
  IF smoothnessBoundMultiplier * log2(toFactor) = 0 THEN 1
  ELSE smoothnessBoundMultiplier * log2(toFactor)

(* C27: the factor base of the constructed Factorizer is, in ascending     *)
(* order, the first K sieved primes above the gear level whose residue of  *)
(* N is a perfect square (residue 1 included), K being the requested count *)
(* capped by the number of sieved primes above the gear level; it is       *)
(* shorter than K only when those primes are exhausted.                    *)
C27_FactorBaseIsSquareResidues ==
  worker.constructed =>
    LET passing == SquareResiduePrimes(toFactor, primes)
        K == Min(Len(primes), RequestedPrimeCount)
    IN worker.primes = SubSeq(passing, 1, Min(K, Len(passing)))

(* The call's number is no perfect square, has no divisor d >= 2 with      *)
(* d <= trialDivisionLevel and d * d <= N, and trialDivisionLevel^2 >= N   *)
PrimeWithinBudget ==
  LET N == BigInteger(toFactorStr)
  IN /\ N >= 2
     /\ ~IsPerfectSquare(N)
     /\ \A d \in 2..Min(trialDivisionLevel, N) : d * d <= N => N % d # 0
     /\ trialDivisionLevel * trialDivisionLevel >= N

(* C28: for N not a perfect square, with no sieved prime dividing it and   *)
(* trialDivisionLevel^2 >= N, the driver returns "1" right after trial     *)
(* division: no Factorizer is constructed and no thread is started.        *)
C28_PrimeReturnsAfterTrial ==
  (PrimeWithinBudget /\ OneNode /\ LevelsInOrder) =>
    /\ ~worker.constructed
    /\ futures = << >>
    /\ pc \in {"start", "trial", "done"}
    /\ pc = "done" => (Returned /\ BigInteger(returned) = 1)

(* The task of cpu is taking a turn of its loop in this step *)
ElimTaskTurn(cpu) ==
  /\ elim.on /\ elim'.on
  /\ elim.phase = "tasks" /\ elim'.phase = "tasks"
  /\ cpu \in 1..Len(elim.task)
  /\ elim'.task[cpu] # elim.task[cpu]

(* C29: in gaussianElimination the row-update tasks of a pivot column      *)
(* split the rows round-robin: the task of cpu (counted from 0) is only    *)
(* ever at rows r < rows with r mod CpuCount = cpu, so no two tasks are at *)
(* the same row; a turn writes no row but its own, never the pivot row,    *)
(* and writes its row only when the row has the column bit set, XOR-ing    *)
(* the pivot vector in and multiplying by the pivot key; when the tasks    *)
(* are over every row but the pivot has the column bit clear, and the      *)
(* column moves on only when every task is over.                           *)
C29_RowsSplitRoundRobin ==
  /\ [](elim.on =>
          \A cpu \in 1..Len(elim.task) :
            elim.task[cpu] # 0 =>
              /\ elim.task[cpu] <= Len(elim.m.values)
              /\ (elim.task[cpu] - 1) % elim.cpuCount = cpu - 1
              /\ \A other \in 1..Len(elim.task) :
                   other # cpu => elim.task[other] # elim.task[cpu])
  /\ [][\A cpu \in 1..MaxTasks :
          ElimTaskTurn(cpu) =>
            LET row == elim.task[cpu]
                col == elim.col
            IN /\ \A r \in 1..Len(elim.m.keys) :
                    r # row => /\ elim'.m.keys[r] = elim.m.keys[r]
                               /\ elim'.m.values[r] = elim.m.values[r]
               /\ elim'.m.keys[col] = elim.m.keys[col]
               /\ elim'.m.values[col] = elim.m.values[col]
               /\ IF row # col /\ elim.m.values[row][col]
                  THEN /\ elim'.m.values[row]
                            = Xor(elim.m.values[row], elim.m.values[col])
                       /\ elim'.m.keys[row] = elim.m.keys[row] * elim.m.keys[col]
                  ELSE elim'.m = elim.m]_vars
  /\ [][(elim.on /\ elim'.on /\ elim'.col # elim.col /\ elim.phase = "tasks")
          => /\ \A cpu \in 1..Len(elim.task) : elim.task[cpu] = 0
             /\ \A r \in 1..Len(elim.m.values) :
                  r # elim.col => ~elim.m.values[r][elim.col]]_vars

(* Three tasks are under way on a matrix of five rows, one of them on its  *)
(* second row, and an appended row has been updated                        *)
C29_Witness ==
  /\ elim.on /\ elim.phase = "tasks"
  /\ Len(elim.task) = 3
  /\ Len(elim.m.values) = 5
  /\ \E cpu \in 1..3 : elim.task[cpu] > 3
  /\ \E i \in (Len(elim.primes) + 1)..5 : elim.m.keys[i] # elim.initial.keys[i]


(* The values the calls of getNextBatch returned so far are the batch      *)
(* indices batchBound-1, ..., 0 in that order and after them the sentinel; *)
(* a call that returns the sentinel leaves batchNumber as it was           *)
BatchesHandedDescending ==
  LET bound == batches.f.batchBound
  IN /\ \A k \in 1..Len(batches.calls) :
          /\ batches.calls[k].value = (IF k <= bound THEN bound - k ELSE bound)
          /\ batches.calls[k].value = bound
               => batches.calls[k].after = batches.calls[k].before
     /\ batches.f.batchNumber = Min(Len(batches.calls), bound)

(* No batch was entered by two workers, and every batch entered is a batch *)
(* index                                                                   *)
BatchesSweptOnce ==
  \A a \in batches.swept, b \in batches.swept :
    /\ a[2] \in 0..(batches.f.batchBound - 1)
    /\ a[2] = b[2] => a[1] = b[1]

AllWorkersDone ==
  batches.on /\ \A w \in DOMAIN batches.at : batches.at[w] = "done"

(* C30: in the stand-alone variant, however the workers' calls of          *)
(* getNextBatch interleave, the calls return every batch index in          *)
(* [0, batchBound) exactly once, in the order batchBound-1, ..., 0, every  *)
(* later call returns the sentinel batchBound and leaves batchNumber       *)
(* unchanged, no batch is swept by two workers, and every worker's         *)
(* getSmoothNumbers loop comes to its end                                  *)
C30_BatchesHandedOnce ==
  /\ [](batches.on => BatchesHandedDescending /\ BatchesSweptOnce)
  /\ [](AllWorkersDone /\ ~batches.f.isFinished
          => /\ Len(batches.calls) = batches.f.batchBound + Len(batches.at)
             /\ {s[2] : s \in batches.swept} = 0..(batches.f.batchBound - 1))
  /\ <>AllWorkersDone

(* Three workers have swept three batches between them, no divisor was     *)
(* found, and each of them was handed the sentinel                         *)
C30_Witness ==
  /\ AllWorkersDone
  /\ Len(batches.at) = 3
  /\ batches.f.batchBound = 3
  /\ ~batches.f.isFinished
  /\ Len(batches.calls) = 6
  /\ \A k \in 4..6 : batches.calls[k].value = 3
  /\ Cardinality({s[1] : s \in batches.swept}) >= 2

====
